---- MODULE Spec2Model ----
(***************************************************************************)
(* MiniSOC server pipeline: /ingest handler, detection engine, alert       *)
(* router with persisted TTL dedupe, and the SQLite storage layer; and the *)
(* agent: source selection, the file and journal followers, the sshd line  *)
(* parser, the tail loop of run_tail_auth and the burst tracker; and the   *)
(* replay driver.                                                          *)
(*                                                                         *)
(* Conventions                                                             *)
(*   - a timestamp `ts` is the number of seconds since 00:00:00Z of the    *)
(*     day of the run; bucket_minute (ts[:16]) is then the numeral of      *)
(*     ts \div 60 and the UTC hour is (ts \div 3600) % 24;                 *)
(*   - the wall clock `now` of the dedupe cache counts minutes;            *)
(*   - Python's None for a string field is the string "None"; an optional  *)
(*     record is a sequence of length 0 or 1;                              *)
(*   - sha256(text)[:24] is written as the text itself: the digest is      *)
(*     taken to be one-to-one on the texts of the model, so that two       *)
(*     alert_ids are equal exactly when the hashed texts are.              *)
(***************************************************************************)
EXTENDS Integers, Sequences, FiniteSets, TLC

(***************************************************************************)
(* Program constants                                                       *)
(***************************************************************************)
threshold == 5
HistoryCap == 200
distinct_users == 4
max_per_user == 2
start_hour == 8
end_hour == 18
max_kmh == 900
live_lookback_s == 600
overlap_s == 1
maxlen == 500
ttl_minutes == 60
local_bruteforce_window_s == 60
local_bruteforce_threshold == 5
local_bruteforce_cooldown_s == 60

(***************************************************************************)
(* Bounds of the model                                                     *)
(***************************************************************************)
MaxScenario == 3
MaxPosts == 3
MaxConcPosts == 2
MaxCalls == 4
MaxNow == 125
MaxStoreCalls == 3
MaxFeed == 6
MaxLogins == 5
MaxDerive == 2
MaxLines == 3
MaxRotations == 1
MaxEntries == 3
MaxRequests == 3
MaxParse == 1
MaxQueries == 1
MaxPick == 1
MaxTicks == 2
Backlog == 198
MaxBurst == 4
MaxObserve == 7
MaxSpan == 121
MaxFileLines == 3
MaxBoots == 1
MaxScope == 2

Handlers == {1, 2}

IPs == {"ip1", "ip2", "ip3"}
UserNames == {"u1", "u2", "u3", "u4", "u5"}

(***************************************************************************)
(* Events                                                                  *)
(***************************************************************************)
NormalizedEvent(id, ts, outcome, user, ip, geo) ==
    [event_id |-> id, ts |-> ts, type |-> "auth", action |-> "ssh_login",
     outcome |-> outcome, severity |-> IF outcome = "failure" THEN 4 ELSE 3,
     user |-> user, src_ip |-> ip, geo |-> geo]

\* 03:15:00Z, 03:15:30Z (same minute), 03:16:00Z, 09:00:00Z
Times == <<11700, 11730, 11760, 32400>>

\* ts[:16], "YYYY-MM-DDTHH:MM": the text of the minute
bucket_minute(ts) == ToString(ts \div 60)

hour_utc(ts) == (ts \div 3600) % 24

\* "a_" + sha256(f"{rule_id}|{entity}|{bucket}")[:24]
stable_alert_id(rule_id, entity, bucket) ==
    "a_" \o rule_id \o "|" \o entity \o "|" \o bucket

\* great-circle distance in whole km between the places of the model,
\* "SF" (37.77, -122.42) and "Paris" (48.86, 2.35)
haversine_km(p, q) ==
    IF p = q THEN 0 ELSE 8975

(***************************************************************************)
(* Small helpers                                                           *)
(***************************************************************************)
Min(a, b) == IF a <= b THEN a ELSE b

Range(s) == {s[i] : i \in 1..Len(s)}

\* s[-n:]
LastN(s, n) ==
    IF Len(s) <= n THEN s ELSE SubSeq(s, Len(s) - n + 1, Len(s))

Lookup(f, k, default) == IF k \in DOMAIN f THEN f[k] ELSE default

Put(f, k, v) == [x \in (DOMAIN f) \cup {k} |-> IF x = k THEN v ELSE f[x]]

Drop(f, k) == [x \in (DOMAIN f) \ {k} |-> f[x]]

EmptyMap == [x \in {} |-> 0]

RECURSIVE Perms(_)
Perms(S) ==
    IF S = {} THEN {<<>>}
    ELSE UNION {{<<x>> \o p : p \in Perms(S \ {x})} : x \in S}

(***************************************************************************)
(* Detection rules.  Each rule's on_event is split where another thread    *)
(* can run between two statements: RuleA is the part up to that point,     *)
(* RuleB the rest; on_event is RuleB after RuleA.  `rs` is the record of   *)
(* the four rules' state, `loc` the local variables of one call.           *)
(***************************************************************************)
\* mutant: the type and the action of the event are not looked at
IsSshLogin_any(ev) == TRUE

IsSshLogin(ev) == ev.type = "auth" /\ ev.action = "ssh_login"

Detection(rule_id, entity, event_ids, b, n) ==
    [rule_id |-> rule_id, entity |-> entity, event_ids |-> event_ids,
     details |-> [bucket |-> b, n |-> n]]

NoLoc == [isNew |-> FALSE, prev |-> <<>>]

InitRules ==
    [fails |-> [ip \in IPs |-> <<>>],
     spray |-> EmptyMap,
     known |-> [u \in UserNames |-> {}],
     last  |-> [u \in UserNames |-> <<>>]]

\* ---- AUTH001
BruteForceApplies(ev) ==
    IsSshLogin(ev) /\ ev.outcome = "failure" /\ ev.src_ip # "None"

\* mutant: the history is never cut
BruteForceA_nocap(rs, ev) ==
    IF ~BruteForceApplies(ev) THEN [rs |-> rs, loc |-> NoLoc]
    ELSE [rs |-> [rs EXCEPT !.fails[ev.src_ip] =
                     Append(@, <<ev.ts, ev.event_id>>)],
          loc |-> NoLoc]

BruteForceA(rs, ev) ==
    IF ~BruteForceApplies(ev) THEN [rs |-> rs, loc |-> NoLoc]
    ELSE [rs |-> [rs EXCEPT !.fails[ev.src_ip] =
                     LastN(Append(@, <<ev.ts, ev.event_id>>), HistoryCap)],
          loc |-> NoLoc]

\* mutant: the history has to be longer than the threshold
BruteForceB_strict(rs, loc, ev) ==
    IF BruteForceApplies(ev) /\ Len(rs.fails[ev.src_ip]) > threshold
    THEN LET tl == LastN(rs.fails[ev.src_ip], threshold)
         IN [rs |-> rs,
             det |-> <<Detection("AUTH001", "src_ip:" \o ev.src_ip,
                                 [i \in 1..Len(tl) |-> tl[i][2]],
                                 bucket_minute(ev.ts), threshold)>>]
    ELSE [rs |-> rs, det |-> <<>>]

BruteForceB(rs, loc, ev) ==
    IF BruteForceApplies(ev) /\ Len(rs.fails[ev.src_ip]) >= threshold
    THEN LET tl == LastN(rs.fails[ev.src_ip], threshold)
         IN [rs |-> rs,
             det |-> <<Detection("AUTH001", "src_ip:" \o ev.src_ip,
                                 [i \in 1..Len(tl) |-> tl[i][2]],
                                 bucket_minute(ev.ts), threshold)>>]
    ELSE [rs |-> rs, det |-> <<>>]

\* ---- AUTH002
PasswordSprayApplies(ev) ==
    /\ IsSshLogin(ev) /\ ev.outcome = "failure"
    /\ ev.src_ip # "None" /\ ev.user # "None"

\* the insertion-ordered dict user -> [event_id]: a sequence of entries
SprayAppend(users, user, eid) ==
    IF \E i \in 1..Len(users) : users[i].user = user
    THEN [i \in 1..Len(users) |->
             IF users[i].user = user
             THEN [users[i] EXCEPT !.ids = Append(@, eid)]
             ELSE users[i]]
    ELSE Append(users, [user |-> user, ids |-> <<eid>>])

PasswordSprayA(rs, ev) ==
    IF ~PasswordSprayApplies(ev) THEN [rs |-> rs, loc |-> NoLoc]
    ELSE LET k == <<ev.src_ip, bucket_minute(ev.ts)>>
         IN [rs |-> [rs EXCEPT !.spray =
                        Put(@, k, SprayAppend(Lookup(@, k, <<>>), ev.user, ev.event_id))],
             loc |-> NoLoc]

\* mutant: the number of failures per user is not looked at
PasswordSprayB_nomax(rs, loc, ev) ==
    IF ~PasswordSprayApplies(ev) THEN [rs |-> rs, det |-> <<>>]
    ELSE LET users == Lookup(rs.spray, <<ev.src_ip, bucket_minute(ev.ts)>>, <<>>)
         IN IF Len(users) >= distinct_users
            THEN [rs |-> rs,
                  det |-> <<Detection("AUTH002", "src_ip:" \o ev.src_ip,
                                      [i \in 1..Len(users) |->
                                          users[i].ids[Len(users[i].ids)]],
                                      bucket_minute(ev.ts), Len(users))>>]
            ELSE [rs |-> rs, det |-> <<>>]

PasswordSprayB(rs, loc, ev) ==
    IF ~PasswordSprayApplies(ev) THEN [rs |-> rs, det |-> <<>>]
    ELSE LET users == Lookup(rs.spray, <<ev.src_ip, bucket_minute(ev.ts)>>, <<>>)
         IN IF /\ Len(users) >= distinct_users
               /\ \A i \in 1..Len(users) : Len(users[i].ids) <= max_per_user
            THEN [rs |-> rs,
                  det |-> <<Detection("AUTH002", "src_ip:" \o ev.src_ip,
                                      [i \in 1..Len(users) |->
                                          users[i].ids[Len(users[i].ids)]],
                                      bucket_minute(ev.ts), Len(users))>>]
            ELSE [rs |-> rs, det |-> <<>>]

\* ---- AUTH003
NewIPApplies(ev) ==
    /\ IsSshLogin(ev) /\ ev.outcome = "success"
    /\ ev.user # "None" /\ ev.src_ip # "None"

\* mutant: the first IP of a user counts as new
NewIPForUserA_first(rs, ev) ==
    IF ~NewIPApplies(ev) THEN [rs |-> rs, loc |-> NoLoc]
    ELSE [rs |-> rs,
          loc |-> [NoLoc EXCEPT !.isNew = ev.src_ip \notin rs.known[ev.user]]]

NewIPForUserA(rs, ev) ==
    IF ~NewIPApplies(ev) THEN [rs |-> rs, loc |-> NoLoc]
    ELSE [rs |-> rs,
          loc |-> [NoLoc EXCEPT !.isNew =
                      rs.known[ev.user] # {} /\ ev.src_ip \notin rs.known[ev.user]]]

NewIPForUserB(rs, loc, ev) ==
    IF ~NewIPApplies(ev) THEN [rs |-> rs, det |-> <<>>]
    ELSE LET rs2 == [rs EXCEPT !.known[ev.user] = @ \cup {ev.src_ip}]
         IN [rs |-> rs2,
             det |-> IF loc.isNew
                     THEN <<Detection("AUTH003", "user:" \o ev.user,
                                      <<ev.event_id>>, bucket_minute(ev.ts),
                                      Cardinality(rs2.known[ev.user]) - 1)>>
                     ELSE <<>>]

\* ---- AUTH004
OffHoursApplies(ev) ==
    IsSshLogin(ev) /\ ev.outcome = "success" /\ ev.user # "None"

\* mutant: the hour end_hour still counts as business hours
OffHoursLoginB_late(rs, loc, ev) ==
    IF /\ OffHoursApplies(ev)
       /\ (hour_utc(ev.ts) < start_hour \/ hour_utc(ev.ts) > end_hour)
    THEN [rs |-> rs,
          det |-> <<Detection("AUTH004", "user:" \o ev.user, <<ev.event_id>>,
                              bucket_minute(ev.ts), hour_utc(ev.ts))>>]
    ELSE [rs |-> rs, det |-> <<>>]

OffHoursLoginB(rs, loc, ev) ==
    IF /\ OffHoursApplies(ev)
       /\ (hour_utc(ev.ts) < start_hour \/ hour_utc(ev.ts) >= end_hour)
    THEN [rs |-> rs,
          det |-> <<Detection("AUTH004", "user:" \o ev.user, <<ev.event_id>>,
                              bucket_minute(ev.ts), hour_utc(ev.ts))>>]
    ELSE [rs |-> rs, det |-> <<>>]

\* ---- AUTH005
ImpossibleTravelApplies(ev) ==
    /\ IsSshLogin(ev) /\ ev.outcome = "success"
    /\ ev.user # "None" /\ ev.geo # "None"

\* dist / max(delta_h, 1e-6) > max_kmh for whole km and whole seconds:
\* delta_s / 3600 >= 1e-6 exactly when delta_s >= 1, and
\* dist / 1e-6 > max_kmh exactly when dist > max_kmh \div 10^6
TooFast(dist, delta_s) ==
    IF delta_s >= 1
    THEN dist * 3600 > max_kmh * delta_s
    ELSE dist > max_kmh \div 1000000

ImpossibleTravelA(rs, ev) ==
    IF ~ImpossibleTravelApplies(ev) THEN [rs |-> rs, loc |-> NoLoc]
    ELSE [rs |-> rs, loc |-> [NoLoc EXCEPT !.prev = rs.last[ev.user]]]

\* mutant: a login that fires is not remembered
ImpossibleTravelB_keep(rs, loc, ev) ==
    IF ~ImpossibleTravelApplies(ev) THEN [rs |-> rs, det |-> <<>>]
    ELSE LET rs2 == [rs EXCEPT !.last[ev.user] =
                        <<[ts |-> ev.ts, geo |-> ev.geo, event_id |-> ev.event_id]>>]
         IN IF loc.prev = <<>> THEN [rs |-> rs2, det |-> <<>>]
            ELSE LET prev == loc.prev[1]
                     dist == haversine_km(prev.geo, ev.geo)
                 IN IF TooFast(dist, ev.ts - prev.ts)
                    THEN [rs |-> rs,
                          det |-> <<Detection("AUTH005", "user:" \o ev.user,
                                              <<prev.event_id, ev.event_id>>,
                                              bucket_minute(ev.ts), dist)>>]
                    ELSE [rs |-> rs2, det |-> <<>>]

ImpossibleTravelB(rs, loc, ev) ==
    IF ~ImpossibleTravelApplies(ev) THEN [rs |-> rs, det |-> <<>>]
    ELSE LET rs2 == [rs EXCEPT !.last[ev.user] =
                        <<[ts |-> ev.ts, geo |-> ev.geo, event_id |-> ev.event_id]>>]
         IN IF loc.prev = <<>> THEN [rs |-> rs2, det |-> <<>>]
            ELSE LET prev == loc.prev[1]
                     dist == haversine_km(prev.geo, ev.geo)
                 IN IF TooFast(dist, ev.ts - prev.ts)
                    THEN [rs |-> rs2,
                          det |-> <<Detection("AUTH005", "user:" \o ev.user,
                                              <<prev.event_id, ev.event_id>>,
                                              bucket_minute(ev.ts), dist)>>]
                    ELSE [rs |-> rs2, det |-> <<>>]

\* ---- the engine's ordered rule list
RuleA(i, rs, ev) ==
    CASE i = 1 -> BruteForceA(rs, ev)
      [] i = 2 -> PasswordSprayA(rs, ev)
      [] i = 3 -> NewIPForUserA(rs, ev)
      [] i = 4 -> [rs |-> rs, loc |-> NoLoc]
      [] i = 5 -> ImpossibleTravelA(rs, ev)

RuleB(i, rs, loc, ev) ==
    CASE i = 1 -> BruteForceB(rs, loc, ev)
      [] i = 2 -> PasswordSprayB(rs, loc, ev)
      [] i = 3 -> NewIPForUserB(rs, loc, ev)
      [] i = 4 -> OffHoursLoginB(rs, loc, ev)
      [] i = 5 -> ImpossibleTravelB(rs, loc, ev)

on_event(i, rs, ev) ==
    LET a == RuleA(i, rs, ev) IN RuleB(i, a.rs, a.loc, ev)

\* DetectionEngine.process run to its end by one caller: the rule state
\* afterwards and the detections yielded, in rule-list order.  ProcessUpTo
\* is the loop after its i-th turn.
\*
\* mutant: the detections of one event come out in reverse rule order
RECURSIVE ProcessUpTo_reversed(_, _, _)
ProcessUpTo_reversed(i, rs, ev) ==
    IF i = 0 THEN [dets |-> <<>>, rs |-> rs]
    ELSE LET p == ProcessUpTo_reversed(i - 1, rs, ev)
             r == on_event(i, p.rs, ev)
         IN [dets |-> r.det \o p.dets, rs |-> r.rs]

RECURSIVE ProcessUpTo(_, _, _)
ProcessUpTo(i, rs, ev) ==
    IF i = 0 THEN [dets |-> <<>>, rs |-> rs]
    ELSE LET p == ProcessUpTo(i - 1, rs, ev)
             r == on_event(i, p.rs, ev)
         IN [dets |-> p.dets \o r.det, rs |-> r.rs]

process(rs, ev) == ProcessUpTo(5, rs, ev)

\* the engine fed evs[lo..hi] by one caller, one after the other, from the
\* state and the detections of `st`; the range is halved and the left half
\* is computed before the right one is entered, to keep the evaluation
\* shallow
RECURSIVE RunRange(_, _, _, _)
RunRange(st, evs, lo, hi) ==
    IF lo > hi THEN st
    ELSE IF lo = hi
    THEN LET r == process(st.rs, evs[lo])
         IN [dets |-> st.dets \o
                      [i \in 1..Len(r.dets) |->
                          [event_id |-> evs[lo].event_id, det |-> r.dets[i]]],
             rs |-> r.rs]
    ELSE LET mid == (lo + hi) \div 2
             left == RunRange(st, evs, lo, mid)
         IN IF Len(left.dets) >= 0 THEN RunRange(left, evs, mid + 1, hi) ELSE left

\* the engine fed a list of events by one caller, one after the other
RunSequential(rs, evs) ==
    RunRange([dets |-> <<>>, rs |-> rs], evs, 1, Len(evs))

\* mutant: the bucket is always taken from the ts given to to_alert
to_alert_ts(det, ts) ==
    [alert_id |-> stable_alert_id(det.rule_id, det.entity, bucket_minute(ts)),
     ts |-> ts, rule_id |-> det.rule_id, entity |-> det.entity,
     event_ids |-> det.event_ids, details |-> det.details]

\* bucket = str(det.details.get("bucket", bucket_minute(ts)))
to_alert(det, ts) ==
    [alert_id |-> stable_alert_id(det.rule_id, det.entity,
                                  IF "bucket" \in DOMAIN det.details
                                  THEN det.details.bucket
                                  ELSE bucket_minute(ts)),
     ts |-> ts, rule_id |-> det.rule_id, entity |-> det.entity,
     event_ids |-> det.event_ids, details |-> det.details]

(***************************************************************************)
(* Storage: the tables are functions from the primary key to the row       *)
(***************************************************************************)
\* mutant: INSERT OR IGNORE instead of INSERT OR REPLACE
RECURSIVE insert_events_ignore(_, _)
insert_events_ignore(tbl, evs) ==
    IF evs = <<>> THEN tbl
    ELSE insert_events_ignore(
             IF Head(evs).event_id \in DOMAIN tbl THEN tbl
             ELSE Put(tbl, Head(evs).event_id, Head(evs)),
             Tail(evs))

RECURSIVE insert_events(_, _)
insert_events(tbl, evs) ==
    IF evs = <<>> THEN tbl
    ELSE insert_events(Put(tbl, Head(evs).event_id, Head(evs)), Tail(evs))

\* mutant: INSERT OR REPLACE instead of INSERT OR IGNORE
insert_alert_replace(tbl, a) == Put(tbl, a.alert_id, a)

insert_alert(tbl, a) ==
    IF a.alert_id \in DOMAIN tbl THEN tbl ELSE Put(tbl, a.alert_id, a)

\* json.loads(e.model_dump_json(by_alias=True)): the JSON object of an event,
\* schema_id under its alias "schema", the UUID as a string, the fields of
\* event, user and src nested
by_alias_json(e) ==
    [schema |-> "minisoc.event.v1",
     ts |-> e.ts,
     event_id |-> ToString(e.event_id),
     event |-> [type |-> e.type, action |-> e.action, outcome |-> e.outcome,
                severity |-> e.severity],
     user |-> IF e.user = "None" THEN "None" ELSE [name |-> e.user, uid |-> "None"],
     src |-> IF e.src_ip = "None" THEN "None"
             ELSE [ip |-> e.src_ip, port |-> "None", geo |-> e.geo]]

\* SELECT ... FROM events ORDER BY ts DESC LIMIT ?: every list of keys the
\* query may return (rows of equal ts come in either order); a negative LIMIT
\* is no limit in SQLite
recent_rows(tbl, limit) ==
    LET n == IF limit < 0 THEN Cardinality(DOMAIN tbl)
             ELSE Min(limit, Cardinality(DOMAIN tbl))
    IN {s \in [1..n -> DOMAIN tbl] :
           /\ \A i, j \in 1..n : i < j => s[i] # s[j] /\ tbl[s[i]].ts >= tbl[s[j]].ts
           /\ \A k \in DOMAIN tbl :
                 (\A i \in 1..n : s[i] # k) => \A i \in 1..n : tbl[s[i]].ts >= tbl[k].ts}

\* return [json.loads(r[0]) for r in cur.fetchall()]; the json column of a
\* row is the dump of the event the row was written from
recent_events(tbl, limit) ==
    {[i \in 1..Len(s) |-> by_alias_json(tbl[s[i]])] : s \in recent_rows(tbl, limit)}

(***************************************************************************)
(* DedupeCache: _seen maps an alert_id to the time it was marked           *)
(***************************************************************************)
\* mutant: an entry exactly TTL old is dropped
Prune_strict(seenMap, t) ==
    IF ttl_minutes <= 0 THEN EmptyMap
    ELSE [a \in {x \in DOMAIN seenMap : seenMap[x] > t - ttl_minutes} |-> seenMap[a]]

Prune(seenMap, t) ==
    IF ttl_minutes <= 0 THEN EmptyMap
    ELSE [a \in {x \in DOMAIN seenMap : seenMap[x] >= t - ttl_minutes} |-> seenMap[a]]

mark_seen_now(seenMap, aid, t) ==
    IF ttl_minutes <= 0 THEN seenMap ELSE Put(seenMap, aid, t)

\* mutant: the counter is set instead of incremented
count_repeat_reset(sup, aid) == Put(sup, aid, 1)

\* self._suppressed[alert_id] = self._suppressed.get(alert_id, 0) + 1
count_repeat(sup, aid) == Put(sup, aid, Lookup(sup, aid, 0) + 1)

(***************************************************************************)
(* State                                                                   *)
(***************************************************************************)
VARIABLES
    events,       \* events table: event_id -> event
    alerts,       \* alerts table: alert_id -> alert
    jsonl,        \* events.jsonl, a sequence of lines
    rules,        \* state of the rules: _fails, _state, _known, _last
    seen,         \* DedupeCache._seen
    seenFile,     \* seen_alert_ids.txt
    suppressed,   \* Router._suppressed
    now,          \* wall clock (minutes)
    pc,           \* per handler thread: position in ingest / route
    cur,          \* per handler: the event being ingested
    ri,           \* per handler: index of the rule being run (0: direct route call)
    loc,          \* per handler: local variables of the running on_event
    alert,        \* per handler: the alert being inserted / routed
    alert_count,  \* per handler: alert_count of ingest
    fed,          \* per handler: rules that have seen the current event
    raised,       \* per handler: the notifier raised during the request
    accepted,     \* history: events that passed validation, in arrival order
    inserted,     \* history: events given to insert_events
    alertsIn,     \* history: alerts given to insert_alert
    yielded,      \* history: detections yielded by the engine
    routed,       \* history: outcome of every Router.route call
    notified,     \* history: calls of Notifier.notify
    responses,    \* history: responses of /ingest
    scenario,     \* replay driver: the scenario file
    pass,         \* replay driver: 1 first replay, 2 second replay, 3 done
    pos,          \* replay driver: next line to post
    firstCount,   \* replay driver: alert rows after the first replay
    pool,         \* engine driver: the contents the fed events are drawn from
    derived,      \* history: calls of to_alert, with the alert returned
    file,         \* agent host: the lines of the auth log
    offset,       \* agent: lines of the file behind the follower's position
    apc,          \* agent: position in run_tail_auth / follow_file
    mode,         \* agent: "live" or "replay"
    from_start_live, \* agent: --from-start
    dry_run,      \* agent: --dry-run
    stats,        \* agent: TailStats
    yieldedLines, \* history: lines the follower yielded
    produced,     \* history: events parse_sshd_line returned to the agent
    posts,        \* history: POSTs to /ingest attempted by the agent
    pathInode,    \* agent host: inode of the file now at the followed path
    openInode,    \* agent: inode of the follower's open handle (0: none)
    newFile,      \* agent host: lines of the file at the path once it is
                  \* not the file of the open handle
    journal,      \* agent host: the entries of the sshd units in the journal
    clock,        \* agent host: wall clock (seconds)
    since,        \* journal follower: the --since cursor (seconds)
    recent,       \* journal follower: deque of the recent lines
    recent_set,   \* journal follower: set of the recent lines
    stdout,       \* journal follower: lines of r.stdout not yet looked at
    tstate,       \* burst tracker: SuspiciousTracker._state, ip -> _IPState
    suspicious,   \* agent host: the records of the suspicious log
    observed,     \* history: calls of observe_failure
    rstats,       \* replay driver: the counters sent and failed
    replayed,     \* history: POSTs of the replay driver, with their outcome
    boots         \* history: for every restart of the server, the number of
                  \* route calls made before it

storeVars == <<events, alerts, jsonl>>
routerVars == <<seen, seenFile, suppressed>>
handlerVars == <<pc, cur, ri, loc, alert, alert_count, fed, raised>>
histVars == <<accepted, inserted, alertsIn, yielded, routed, notified, responses>>
rotVars == <<pathInode, openInode, newFile>>
journalVars == <<journal, clock, since, recent, recent_set, stdout>>
agentVars == <<file, offset, apc, mode, from_start_live, dry_run, stats,
               yieldedLines, produced, posts, rotVars, journalVars>>
trackerVars == <<tstate, suspicious, observed>>
replayVars == <<rstats, replayed>>
sideVars == <<trackerVars, replayVars, boots>>
\* all that is outside the server
driverVars == <<scenario, pass, pos, firstCount, pool, sideVars, derived, agentVars>>
vars == <<events, alerts, jsonl, rules, seen, seenFile, suppressed, now,
          pc, cur, ri, loc, alert, alert_count, fed, raised,
          accepted, inserted, alertsIn, yielded, routed, notified, responses,
          scenario, pass, pos, firstCount, pool, sideVars, derived,
          file, offset, apc, mode, from_start_live, dry_run, stats,
          yieldedLines, produced, posts, pathInode, openInode, newFile,
          journal, clock, since, recent, recent_set, stdout,
          tstate, suspicious, observed, rstats, replayed, boots>>

NoEvent == NormalizedEvent(0, 0, "unknown", "None", "None", "None")

NoAlert == to_alert(Detection("none", "none", <<>>, "none", 0), 0)

\* TailStats()
NoStats == [read |-> 0, parsed |-> 0, sent |-> 0, failed |-> 0]

\* no journal follower runs
NoJournal ==
    /\ journal = <<>>
    /\ clock = 0
    /\ since = 0
    /\ recent = <<>>
    /\ recent_set = {}
    /\ stdout = <<>>

\* no burst tracker, replay driver or restart has run
NoSide ==
    /\ tstate = EmptyMap
    /\ suspicious = <<>>
    /\ observed = <<>>
    /\ rstats = [sent |-> 0, failed |-> 0]
    /\ replayed = <<>>
    /\ boots = <<>>

\* no agent runs
NoAgent ==
    /\ file = <<>>
    /\ offset = 0
    /\ apc = "off"
    /\ mode = "live"
    /\ from_start_live = FALSE
    /\ dry_run = FALSE
    /\ stats = NoStats
    /\ yieldedLines = <<>>
    /\ produced = <<>>
    /\ posts = <<>>
    /\ pathInode = 1
    /\ openInode = 0
    /\ newFile = <<>>
    /\ NoJournal

\* create_app but for the engine: empty database and cache file, fresh router
InitApp ==
    /\ events = EmptyMap
    /\ alerts = EmptyMap
    /\ jsonl = <<>>
    /\ seen = EmptyMap
    /\ seenFile = EmptyMap
    /\ suppressed = EmptyMap
    /\ now = 0
    /\ pc = [h \in Handlers |-> "idle"]
    /\ cur = [h \in Handlers |-> NoEvent]
    /\ ri = [h \in Handlers |-> 0]
    /\ loc = [h \in Handlers |-> NoLoc]
    /\ alert = [h \in Handlers |-> NoAlert]
    /\ alert_count = [h \in Handlers |-> 0]
    /\ fed = [h \in Handlers |-> {}]
    /\ raised = [h \in Handlers |-> FALSE]
    /\ inserted = <<>>
    /\ alertsIn = <<>>
    /\ routed = <<>>
    /\ notified = <<>>
    /\ responses = <<>>
    /\ pass = 1
    /\ pos = 1
    /\ firstCount = 0
    /\ derived = <<>>

\* create_app: ... and a fresh engine, which has seen no event
InitServer ==
    /\ InitApp
    /\ rules = InitRules
    /\ accepted = <<>>
    /\ yielded = <<>>

(***************************************************************************)
(* POST /ingest, one step per statement another thread can run between     *)
(***************************************************************************)
\* the body passed validation and the handler starts
Post(h, ev) ==
    /\ pc[h] = "idle"
    /\ pc' = [pc EXCEPT ![h] = "insert_events"]
    /\ cur' = [cur EXCEPT ![h] = ev]
    /\ ri' = [ri EXCEPT ![h] = 1]
    /\ alert_count' = [alert_count EXCEPT ![h] = 0]
    /\ fed' = [fed EXCEPT ![h] = {}]
    /\ raised' = [raised EXCEPT ![h] = FALSE]
    /\ accepted' = Append(accepted, ev)
    /\ UNCHANGED <<storeVars, rules, routerVars, now, loc, alert,
                   inserted, alertsIn, yielded, routed, notified, responses>>

\* store.insert_events([ev])
StoreEvent(h) ==
    /\ pc[h] = "insert_events"
    /\ events' = insert_events(events, <<cur[h]>>)
    /\ inserted' = Append(inserted, cur[h])
    /\ pc' = [pc EXCEPT ![h] = "jsonl"]
    /\ UNCHANGED <<alerts, jsonl, rules, routerVars, now, cur, ri, loc, alert,
                   alert_count, fed, raised, accepted, alertsIn, yielded, routed,
                   notified, responses, driverVars>>

\* f.write(ev.model_dump_json(by_alias=True) + "\n")
AppendJsonl(h) ==
    /\ pc[h] = "jsonl"
    /\ jsonl' = Append(jsonl, cur[h])
    /\ pc' = [pc EXCEPT ![h] = "ruleA"]
    /\ UNCHANGED <<events, alerts, rules, routerVars, now, cur, ri, loc, alert,
                   alert_count, fed, raised, histVars, driverVars>>

\* mutant: the loop over the rules ends with the first detection
AfterRule_stop(h) ==
    IF ri[h] = 0 THEN [pc |-> "idle", ri |-> 0]
    ELSE IF ri[h] = 5 \/ alert_count[h] > 0 THEN [pc |-> "respond", ri |-> ri[h]]
    ELSE [pc |-> "ruleA", ri |-> ri[h] + 1]

\* where the handler goes on after rule ri[h] is dealt with
AfterRule(h) ==
    IF ri[h] = 0 THEN [pc |-> "idle", ri |-> 0]
    ELSE IF ri[h] = 5 THEN [pc |-> "respond", ri |-> 5]
    ELSE [pc |-> "ruleA", ri |-> ri[h] + 1]

\* r.on_event(ev), first part
StepRuleA(h) ==
    /\ pc[h] = "ruleA"
    /\ LET r == RuleA(ri[h], rules, cur[h])
       IN /\ rules' = r.rs
          /\ loc' = [loc EXCEPT ![h] = r.loc]
    /\ pc' = [pc EXCEPT ![h] = "ruleB"]
    /\ UNCHANGED <<storeVars, routerVars, now, cur, ri, alert, alert_count, fed,
                   raised, histVars, driverVars>>

\* r.on_event(ev), second part; `yield d` and engine.to_alert
StepRuleB(h) ==
    /\ pc[h] = "ruleB"
    /\ LET r == RuleB(ri[h], rules, loc[h], cur[h])
       IN /\ rules' = r.rs
          /\ fed' = [fed EXCEPT ![h] = @ \cup {ri[h]}]
          /\ IF r.det = <<>>
             THEN /\ pc' = [pc EXCEPT ![h] = AfterRule(h).pc]
                  /\ ri' = [ri EXCEPT ![h] = AfterRule(h).ri]
                  /\ UNCHANGED <<alert, yielded>>
             ELSE /\ pc' = [pc EXCEPT ![h] = "insert_alert"]
                  /\ alert' = [alert EXCEPT ![h] = to_alert(r.det[1], cur[h].ts)]
                  /\ yielded' = Append(yielded, [event_id |-> cur[h].event_id,
                                                 det |-> r.det[1]])
                  /\ UNCHANGED ri
    /\ UNCHANGED <<storeVars, routerVars, now, cur, loc, alert_count, raised,
                   accepted, inserted, alertsIn, routed, notified, responses,
                   driverVars>>

\* mutant: only alerts that are new to the table are counted
StoreAlert_countNew(h) ==
    /\ pc[h] = "insert_alert"
    /\ alerts' = insert_alert(alerts, alert[h])
    /\ alertsIn' = Append(alertsIn, alert[h])
    /\ alert_count' = [alert_count EXCEPT
                          ![h] = IF alert[h].alert_id \in DOMAIN alerts THEN @ ELSE @ + 1]
    /\ pc' = [pc EXCEPT ![h] = "route"]
    /\ UNCHANGED <<events, jsonl, rules, routerVars, now, cur, ri, loc, alert,
                   fed, raised, accepted, inserted, yielded, routed, notified,
                   responses, driverVars>>

\* store.insert_alert(alert); alert_count += 1
StoreAlert(h) ==
    /\ pc[h] = "insert_alert"
    /\ alerts' = insert_alert(alerts, alert[h])
    /\ alertsIn' = Append(alertsIn, alert[h])
    /\ alert_count' = [alert_count EXCEPT ![h] = @ + 1]
    /\ pc' = [pc EXCEPT ![h] = "route"]
    /\ UNCHANGED <<events, jsonl, rules, routerVars, now, cur, ri, loc, alert,
                   fed, raised, accepted, inserted, yielded, routed, notified,
                   responses, driverVars>>

(***************************************************************************)
(* Router.route                                                            *)
(***************************************************************************)
\* mutant: a suppressed route marks the ID seen again
RouteSeen_extend(h) ==
    /\ pc[h] = "route"
    /\ LET aid == alert[h].alert_id
           pruned == IF ttl_minutes <= 0 THEN seen ELSE Prune(seen, now)
           isSeen == ttl_minutes > 0 /\ aid \in DOMAIN pruned
       IN /\ seen' = IF isSeen THEN mark_seen_now(pruned, aid, now) ELSE pruned
          /\ IF isSeen
             THEN /\ suppressed' = count_repeat(suppressed, aid)
                  /\ routed' = Append(routed, [alert_id |-> aid, at |-> now,
                                               result |-> "suppressed",
                                               n |-> suppressed'[aid]])
                  /\ pc' = [pc EXCEPT ![h] = AfterRule(h).pc]
                  /\ ri' = [ri EXCEPT ![h] = AfterRule(h).ri]
             ELSE /\ pc' = [pc EXCEPT ![h] = "notify"]
                  /\ UNCHANGED <<suppressed, routed, ri>>
    /\ UNCHANGED <<storeVars, rules, seenFile, now, cur, loc, alert, alert_count,
                   fed, raised, accepted, inserted, alertsIn, yielded, notified,
                   responses, driverVars>>

\* if self.dedupe.seen(alert_id): count the repeat and return
RouteSeen(h) ==
    /\ pc[h] = "route"
    /\ LET aid == alert[h].alert_id
           pruned == IF ttl_minutes <= 0 THEN seen ELSE Prune(seen, now)
           isSeen == ttl_minutes > 0 /\ aid \in DOMAIN pruned
       IN /\ seen' = pruned
          /\ IF isSeen
             THEN /\ suppressed' = count_repeat(suppressed, aid)
                  /\ routed' = Append(routed, [alert_id |-> aid, at |-> now,
                                               result |-> "suppressed",
                                               n |-> suppressed'[aid]])
                  /\ pc' = [pc EXCEPT ![h] = AfterRule(h).pc]
                  /\ ri' = [ri EXCEPT ![h] = AfterRule(h).ri]
             ELSE /\ pc' = [pc EXCEPT ![h] = "notify"]
                  /\ UNCHANGED <<suppressed, routed, ri>>
    /\ UNCHANGED <<storeVars, rules, seenFile, now, cur, loc, alert, alert_count,
                   fed, raised, accepted, inserted, alertsIn, yielded, notified,
                   responses, driverVars>>

\* suppressed = self._suppressed.pop(alert_id, 0); self.notifier.notify(...)
Notify(h) ==
    /\ pc[h] = "notify"
    /\ LET aid == alert[h].alert_id
       IN /\ suppressed' = Drop(suppressed, aid)
          /\ notified' = Append(notified, [alert_id |-> aid, at |-> now,
                                           suppressed_repeats |-> Lookup(suppressed, aid, 0),
                                           ok |-> TRUE])
          /\ routed' = Append(routed, [alert_id |-> aid, at |-> now,
                                       result |-> "notified",
                                       n |-> Lookup(suppressed, aid, 0)])
    /\ pc' = [pc EXCEPT ![h] = "mark"]
    /\ UNCHANGED <<storeVars, rules, seen, seenFile, now, cur, ri, loc, alert,
                   alert_count, fed, raised, accepted, inserted, alertsIn, yielded,
                   responses, driverVars>>

\* self.dedupe.mark_seen_now(alert_id), which rewrites the cache file
MarkSeen(h) ==
    /\ pc[h] = "mark"
    /\ seen' = mark_seen_now(seen, alert[h].alert_id, now)
    /\ seenFile' = IF ttl_minutes <= 0 THEN seenFile ELSE seen'
    /\ pc' = [pc EXCEPT ![h] = AfterRule(h).pc]
    /\ ri' = [ri EXCEPT ![h] = AfterRule(h).ri]
    /\ UNCHANGED <<storeVars, rules, suppressed, now, cur, loc, alert, alert_count,
                   fed, raised, histVars, driverVars>>

\* log.info(...); return {"ok": True, "event_id": ..., "alerts": alert_count}
Respond(h) ==
    /\ pc[h] = "respond"
    /\ responses' = Append(responses, [event_id |-> cur[h].event_id, ok |-> TRUE,
                                       status |-> 200,
                                       alerts |-> alert_count[h], fed |-> fed[h],
                                       raised |-> raised[h]])
    /\ pc' = [pc EXCEPT ![h] = "idle"]
    /\ UNCHANGED <<storeVars, rules, routerVars, now, cur, ri, loc, alert,
                   alert_count, fed, raised, accepted, inserted, alertsIn, yielded,
                   routed, notified, driverVars>>

TickSteps == {30, 31}

\* time passes; the clock counts minutes and a call takes far less, so the
\* clock does not advance inside a call
Tick(d) ==
    /\ \A h \in Handlers : pc[h] = "idle"
    /\ now + d <= MaxNow
    /\ now' = now + d
    /\ UNCHANGED <<storeVars, rules, routerVars, handlerVars, histVars, driverVars>>

(***************************************************************************)
(* Storage called directly (SpecStore)                                     *)
(***************************************************************************)
StoreEvents ==
    {NormalizedEvent(id, Times[t], "failure", "u1", "ip1", "None") :
        id \in 1..2, t \in {1, 4}}

StoreBatches ==
    {<<e>> : e \in StoreEvents} \cup {<<e, f>> : e \in StoreEvents, f \in StoreEvents}

StoreAlerts ==
    {to_alert(Detection("AUTH001", "src_ip:" \o ip, <<eid>>, bucket_minute(Times[1]),
                        threshold), Times[t]) :
        ip \in {"ip1", "ip2"}, eid \in 1..2, t \in {1, 2}}

InsertEventsCall(evs) ==
    /\ Len(inserted) + Len(evs) + Len(alertsIn) <= MaxStoreCalls
    /\ events' = insert_events(events, evs)
    /\ inserted' = inserted \o evs
    /\ UNCHANGED <<alerts, jsonl, rules, routerVars, now, handlerVars, accepted,
                   alertsIn, yielded, routed, notified, responses, driverVars>>

InsertAlertCall(a) ==
    /\ Len(inserted) + Len(alertsIn) < MaxStoreCalls
    /\ alerts' = insert_alert(alerts, a)
    /\ alertsIn' = Append(alertsIn, a)
    /\ UNCHANGED <<events, jsonl, rules, routerVars, now, handlerVars, accepted,
                   inserted, yielded, routed, notified, responses, driverVars>>

Limits == {-1, 0, 1, 2, 5}

\* store.recent_events(limit=limit), as GET /events/recent?limit= calls it
RecentEventsCall(limit) ==
    /\ Len(derived) < MaxQueries
    /\ \E rows \in recent_events(events, limit) :
          derived' = Append(derived, [limit |-> limit, rows |-> rows, tbl |-> events])
    /\ UNCHANGED <<storeVars, rules, routerVars, now, handlerVars, histVars,
                   scenario, pass, pos, firstCount, pool, sideVars, agentVars>>

InitStore == InitServer /\ NoAgent /\ NoSide /\ scenario = <<>> /\ pool = {}

NextStore ==
    \/ \E evs \in StoreBatches : InsertEventsCall(evs)
    \/ \E a \in StoreAlerts : InsertAlertCall(a)
    \/ \E limit \in Limits : RecentEventsCall(limit)

SpecStore == InitStore /\ [][NextStore]_vars

(***************************************************************************)
(* Router.route called directly by one caller (SpecRouter)                 *)
(***************************************************************************)
RouterAlerts ==
    {to_alert(Detection("AUTH001", "src_ip:" \o ip, <<1>>, bucket_minute(Times[1]),
                        threshold), Times[1]) : ip \in {"ip1", "ip2"}}

CallRoute(h, a) ==
    /\ pc[h] = "idle"
    /\ Len(routed) < MaxCalls
    /\ alert' = [alert EXCEPT ![h] = a]
    /\ ri' = [ri EXCEPT ![h] = 0]
    /\ pc' = [pc EXCEPT ![h] = "route"]
    /\ UNCHANGED <<storeVars, rules, routerVars, now, cur, loc, alert_count, fed,
                   raised, histVars, driverVars>>

InitRouter == InitServer /\ NoAgent /\ NoSide /\ scenario = <<>> /\ pool = {}

NextRouter ==
    \/ \E a \in RouterAlerts : CallRoute(1, a)
    \/ RouteSeen(1)
    \/ Notify(1)
    \/ MarkSeen(1)
    \/ \E d \in TickSteps : Tick(d)

SpecRouter == InitRouter /\ [][NextRouter]_vars

(***************************************************************************)
(* Failures inside a request: an exception leaves ingest, the framework    *)
(* answers 500 and the rest of the handler does not run                    *)
(***************************************************************************)
ErrorResponse(h, notifierRaised) ==
    [event_id |-> cur[h].event_id, ok |-> FALSE, status |-> 500,
     alerts |-> alert_count[h],
     fed |-> fed[h], raised |-> notifierRaised]

\* jsonl_path.open("a") or f.write raises OSError
JsonlFail(h) ==
    /\ pc[h] = "jsonl"
    /\ responses' = Append(responses, ErrorResponse(h, FALSE))
    /\ pc' = [pc EXCEPT ![h] = "idle"]
    /\ UNCHANGED <<storeVars, rules, routerVars, now, cur, ri, loc, alert,
                   alert_count, fed, raised, accepted, inserted, alertsIn, yielded,
                   routed, notified, driverVars>>

\* store.insert_alert raises sqlite3.Error
StoreAlertFail(h) ==
    /\ pc[h] = "insert_alert"
    /\ responses' = Append(responses, ErrorResponse(h, FALSE))
    /\ pc' = [pc EXCEPT ![h] = "idle"]
    /\ UNCHANGED <<storeVars, rules, routerVars, now, cur, ri, loc, alert,
                   alert_count, fed, raised, accepted, inserted, alertsIn, yielded,
                   routed, notified, driverVars>>

\* self.notifier.notify raises: the counter is already popped, the ID is not
\* marked seen, and the exception leaves route and ingest
NotifyRaise(h) ==
    /\ pc[h] = "notify"
    /\ LET aid == alert[h].alert_id
       IN /\ suppressed' = Drop(suppressed, aid)
          /\ notified' = Append(notified, [alert_id |-> aid, at |-> now,
                                           suppressed_repeats |-> Lookup(suppressed, aid, 0),
                                           ok |-> FALSE])
          /\ routed' = Append(routed, [alert_id |-> aid, at |-> now,
                                       result |-> "raised",
                                       n |-> Lookup(suppressed, aid, 0)])
    /\ raised' = [raised EXCEPT ![h] = TRUE]
    /\ responses' = IF ri[h] = 0 THEN responses
                    ELSE Append(responses, ErrorResponse(h, TRUE))
    /\ pc' = [pc EXCEPT ![h] = "idle"]
    /\ UNCHANGED <<storeVars, rules, seen, seenFile, now, cur, ri, loc, alert,
                   alert_count, fed, accepted, inserted, alertsIn, yielded,
                   driverVars>>

(***************************************************************************)
(* Router.route called directly while the notifier may raise               *)
(* (SpecRouterFault), and while the server may be restarted (SpecRestart)  *)
(***************************************************************************)
NextRouterFault ==
    \/ \E a \in RouterAlerts : CallRoute(1, a)
    \/ RouteSeen(1)
    \/ Notify(1)
    \/ NotifyRaise(1)
    \/ MarkSeen(1)
    \/ \E d \in TickSteps : Tick(d)

SpecRouterFault == InitRouter /\ [][NextRouterFault]_vars

\* the process ends between two requests and create_app runs again: a new
\* engine, a new Router with an empty _suppressed, and a DedupeCache that
\* loads the cache file, prunes it and writes it back; the database stays
Restart ==
    /\ \A h \in Handlers : pc[h] = "idle"
    /\ Len(boots) < MaxBoots
    /\ rules' = InitRules
    /\ seen' = Prune(seenFile, now)
    /\ seenFile' = seen'
    /\ suppressed' = EmptyMap
    /\ boots' = Append(boots, Len(routed))
    /\ UNCHANGED <<storeVars, now, handlerVars, histVars,
                   scenario, pass, pos, firstCount, pool, trackerVars, replayVars,
                   derived, agentVars>>

NextRestart ==
    \/ \E a \in RouterAlerts : CallRoute(1, a)
    \/ RouteSeen(1)
    \/ Notify(1)
    \/ MarkSeen(1)
    \/ \E d \in TickSteps : Tick(d)
    \/ Restart

SpecRestart == InitRouter /\ [][NextRestart]_vars

(***************************************************************************)
(* Clients of /ingest                                                      *)
(***************************************************************************)
\* a client posts a new event (a fresh event_id)
ClientPost(h, c, max) ==
    /\ Len(accepted) < max
    /\ Post(h, NormalizedEvent(Len(accepted) + 1, c.ts, c.outcome, c.user, c.ip, c.geo))
    /\ UNCHANGED driverVars

Content(ts, outcome, user, ip, geo) ==
    [ts |-> ts, outcome |-> outcome, user |-> user, ip |-> ip, geo |-> geo]

RECURSIVE SeqsUpTo(_, _)
SeqsUpTo(S, n) ==
    IF n = 0 THEN {<<>>}
    ELSE LET shorter == SeqsUpTo(S, n - 1)
         IN shorter \cup {Append(q, x) : q \in shorter, x \in S}

(***************************************************************************)
(* Requests to /ingest with any JSON body (SpecIngest): the framework      *)
(* validates the body against NormalizedEvent before ingest runs and       *)
(* answers 422 itself when the validation fails                            *)
(***************************************************************************)
\* a JSON body: `complete` says that the required fields ts, host, source,
\* event.type, event.action, message and raw are there with the right types
Body(ts, outcome, severity, user, ip, complete) ==
    [ts |-> ts, outcome |-> outcome, severity |-> severity, user |-> user,
     ip |-> ip, geo |-> "None", complete |-> complete]

IngestBodies ==
    {Body(Times[1], "success", 3, "u1", "ip1", TRUE),
     Body(Times[2], "success", 3, "u1", "ip2", TRUE),
     Body(Times[2], "success", 0, "u1", "ip2", TRUE),
     Body(Times[1], "failure", 11, "u1", "ip1", TRUE),
     Body(Times[1], "blocked", 4, "u1", "ip1", TRUE),
     Body(Times[1], "failure", 4, "u1", "ip1", FALSE)}

\* NormalizedEvent.model_validate(body): outcome is a Literal, severity an int
validate(body) ==
    /\ body.complete
    /\ body.outcome \in {"success", "failure", "unknown"}
    /\ body.severity \in Int

\* the framework's answer to a body that fails validation
ValidationError == 422

\* POST /ingest with a body
Request(h, body, max) ==
    /\ pc[h] = "idle"
    /\ Len(responses) < max
    /\ IF validate(body)
       THEN Post(h, [NormalizedEvent(Len(accepted) + 1, body.ts, body.outcome,
                                     body.user, body.ip, body.geo)
                        EXCEPT !.severity = body.severity])
       ELSE /\ responses' = Append(responses,
                                   [event_id |-> 0, ok |-> FALSE,
                                    status |-> ValidationError, alerts |-> 0,
                                    fed |-> {}, raised |-> FALSE])
            /\ UNCHANGED <<storeVars, rules, routerVars, now, handlerVars,
                           accepted, inserted, alertsIn, yielded, routed, notified>>
    /\ UNCHANGED driverVars

InitIngest == InitServer /\ NoAgent /\ NoSide /\ scenario = <<>> /\ pool = {}

NextIngest ==
    \/ \E b \in IngestBodies : Request(1, b, MaxRequests)
    \/ StoreEvent(1)
    \/ AppendJsonl(1)
    \/ StepRuleA(1)
    \/ StepRuleB(1)
    \/ StoreAlert(1)
    \/ RouteSeen(1)
    \/ Notify(1)
    \/ MarkSeen(1)
    \/ Respond(1)

SpecIngest == InitIngest /\ [][NextIngest]_vars

(***************************************************************************)
(* The replay driver posts a scenario twice to one running server          *)
(* (SpecReplay)                                                            *)
(***************************************************************************)
ReplayContents ==
    {Content(Times[1], "failure", "u1", "ip1", "None"),
     Content(Times[1], "success", "u1", "ip1", "SF"),
     Content(Times[3], "success", "u1", "ip2", "Paris"),
     Content(Times[4], "success", "u1", "ip2", "SF"),
     Content(Times[4], "success", "u2", "ip1", "None")}

Scenarios ==
    {[i \in 1..Len(q) |->
         NormalizedEvent(i, q[i].ts, q[i].outcome, q[i].user, q[i].ip, q[i].geo)] :
        q \in SeqsUpTo(ReplayContents, MaxScenario) \ {<<>>}}

\* client.post(ingest_url, json=payload), then wait for the response
DriverPost ==
    /\ pass \in {1, 2}
    /\ pos <= Len(scenario)
    /\ Post(1, scenario[pos])
    /\ pos' = pos + 1
    /\ UNCHANGED <<scenario, pass, firstCount, pool, sideVars, derived, agentVars>>

\* the scenario is exhausted: replay_scenario returns
DriverEndPass ==
    /\ pass \in {1, 2}
    /\ pos > Len(scenario)
    /\ pc[1] = "idle"
    /\ pass' = pass + 1
    /\ pos' = 1
    /\ firstCount' = IF pass = 1 THEN Cardinality(DOMAIN alerts) ELSE firstCount
    /\ UNCHANGED <<storeVars, rules, routerVars, now, handlerVars, histVars,
                   scenario, pool, sideVars, derived, agentVars>>

InitReplay == InitServer /\ NoAgent /\ NoSide /\ scenario \in Scenarios /\ pool = {}

NextReplay ==
    \/ DriverPost
    \/ DriverEndPass
    \/ StoreEvent(1)
    \/ AppendJsonl(1)
    \/ StepRuleA(1)
    \/ StepRuleB(1)
    \/ StoreAlert(1)
    \/ RouteSeen(1)
    \/ Notify(1)
    \/ MarkSeen(1)
    \/ Respond(1)

SpecReplay == InitReplay /\ [][NextReplay]_vars

(***************************************************************************)
(* One client, requests that may fail (SpecFault)                          *)
(***************************************************************************)
FaultContents ==
    {Content(Times[1], "failure", "u1", "ip1", "None"),
     Content(Times[1], "success", "u1", "ip1", "SF"),
     Content(Times[2], "success", "u1", "ip2", "Paris")}

InitFault == InitServer /\ NoAgent /\ NoSide /\ scenario = <<>> /\ pool = {}

NextFault ==
    \/ \E c \in FaultContents : ClientPost(1, c, MaxPosts)
    \/ StoreEvent(1)
    \/ AppendJsonl(1)
    \/ JsonlFail(1)
    \/ StepRuleA(1)
    \/ StepRuleB(1)
    \/ StoreAlert(1)
    \/ StoreAlertFail(1)
    \/ RouteSeen(1)
    \/ Notify(1)
    \/ NotifyRaise(1)
    \/ MarkSeen(1)
    \/ Respond(1)

SpecFault == InitFault /\ [][NextFault]_vars

(***************************************************************************)
(* Concurrent requests: the sync handler runs in the server's thread pool, *)
(* one thread per request in flight (SpecConc)                             *)
(***************************************************************************)
ConcContents ==
    {Content(Times[1], "success", "u1", "ip1", "None"),
     Content(Times[2], "success", "u1", "ip2", "None")}

InitConc == InitServer /\ NoAgent /\ NoSide /\ scenario = <<>> /\ pool = {}

NextConc ==
    \/ \E h \in Handlers, c \in ConcContents : ClientPost(h, c, MaxConcPosts)
    \/ \E h \in Handlers : StoreEvent(h)
    \/ \E h \in Handlers : AppendJsonl(h)
    \/ \E h \in Handlers : StepRuleA(h)
    \/ \E h \in Handlers : StepRuleB(h)
    \/ \E h \in Handlers : StoreAlert(h)
    \/ \E h \in Handlers : RouteSeen(h)
    \/ \E h \in Handlers : Notify(h)
    \/ \E h \in Handlers : MarkSeen(h)
    \/ \E h \in Handlers : Respond(h)
    \/ \E d \in TickSteps : Tick(d)

SpecConc == InitConc /\ [][NextConc]_vars

(***************************************************************************)
(* The engine driven by one caller, event after event (SpecEngine): every  *)
(* run feeds new events whose contents come from one of the pools          *)
(***************************************************************************)
\* failures from ip1 at two minutes, with and without a user, and what must
\* not count: another source, a success, an event without src
PoolBrute ==
    {Content(Times[1], "failure", "u1", "ip1", "None"),
     Content(Times[3], "failure", "None", "ip1", "None"),
     Content(Times[1], "failure", "u1", "ip2", "None"),
     Content(Times[1], "success", "u1", "ip1", "None"),
     Content(Times[1], "failure", "u1", "None", "None")}

\* four users from ip1 within minute 03:15, a fifth one a minute later and
\* from another source
PoolSpray ==
    {Content(Times[1], "failure", "u1", "ip1", "None"),
     Content(Times[1], "failure", "u2", "ip1", "None"),
     Content(Times[1], "failure", "u3", "ip1", "None"),
     Content(Times[2], "failure", "u4", "ip1", "None"),
     Content(Times[3], "failure", "u5", "ip1", "None"),
     Content(Times[1], "failure", "u5", "ip2", "None")}

PoolNewIP ==
    {Content(Times[4], "success", "u1", "ip1", "None"),
     Content(Times[4], "success", "u1", "ip2", "None"),
     Content(Times[4], "success", "u1", "ip3", "None"),
     Content(Times[4], "success", "u2", "ip1", "None"),
     Content(Times[4], "failure", "u1", "ip3", "None"),
     Content(Times[4], "success", "None", "ip2", "None")}

\* 07:59:59Z, 08:00:00Z, 17:59:59Z, 18:00:00Z
PoolHours ==
    {Content(28799, "success", "u1", "None", "None"),
     Content(28800, "success", "u1", "ip1", "None"),
     Content(64799, "success", "u1", "ip1", "None"),
     Content(64800, "success", "u1", "ip1", "None"),
     Content(64800, "failure", "u1", "ip1", "None"),
     Content(64800, "success", "None", "ip1", "None")}

\* San Francisco at 09:00:00Z; Paris 35899 s later (just over 900 km/h) and
\* 35900 s later (900 km/h)
PoolTravel ==
    {Content(32400, "success", "u1", "ip1", "SF"),
     Content(68299, "success", "u1", "ip2", "Paris"),
     Content(68300, "success", "u1", "ip1", "Paris"),
     Content(32400, "success", "u1", "ip1", "None"),
     Content(32400, "success", "u2", "ip1", "Paris"),
     Content(32400, "failure", "u1", "ip1", "Paris")}

EnginePools == {PoolBrute, PoolSpray, PoolNewIP, PoolHours, PoolTravel}

\* a source that is past the threshold: failures from ip1 in the minute of the
\* earlier ones and hours later, a success of ip1 and a failure of another
\* source in between
PoolDecay ==
    {Content(Times[1], "failure", "u1", "ip1", "None"),
     Content(Times[4], "failure", "u2", "ip1", "None"),
     Content(Times[4], "success", "u1", "ip1", "None"),
     Content(Times[4], "failure", "u1", "ip2", "None")}

\* length of a run: runs of failures are longer than runs of logins, and a
\* run that starts after a backlog of failures adds a burst to it
FeedLimit ==
    IF pool = PoolDecay THEN Backlog + MaxBurst
    ELSE IF pool \in {PoolBrute, PoolSpray} THEN MaxFeed ELSE MaxLogins

\* for det in eng.process(ev): fired.append(det)
Feed(c) ==
    /\ Len(accepted) < FeedLimit
    /\ LET ev == NormalizedEvent(Len(accepted) + 1, c.ts, c.outcome, c.user, c.ip, c.geo)
           r == process(rules, ev)
       IN /\ rules' = r.rs
          /\ accepted' = Append(accepted, ev)
          /\ yielded' = yielded \o [i \in 1..Len(r.dets) |->
                                       [event_id |-> ev.event_id, det |-> r.dets[i]]]
    /\ UNCHANGED <<storeVars, routerVars, now, handlerVars, inserted, alertsIn,
                   routed, notified, responses, driverVars>>

InitEngine == InitServer /\ NoAgent /\ NoSide /\ scenario = <<>> /\ pool \in EnginePools

NextEngine == \E c \in pool : Feed(c)

SpecEngine == InitEngine /\ [][NextEngine]_vars

(***************************************************************************)
(* The engine fed events of any kind (SpecScope): SSH logins and events of *)
(* another type or action, with and without user, source and geo           *)
(***************************************************************************)
ScopeEvents ==
    {[type |-> k[1], action |-> k[2], outcome |-> o, user |-> u, ip |-> ip, geo |-> g] :
        k \in {<<"auth", "ssh_login">>, <<"process", "ssh_login">>, <<"auth", "sudo">>},
        o \in {"failure", "success"}, u \in {"u1", "None"},
        ip \in {"ip1", "ip2", "None"}, g \in {"SF", "None"}}

\* for det in eng.process(ev): fired.append(det)
FeedAny(x) ==
    /\ Len(accepted) < MaxScope
    /\ LET ev == [NormalizedEvent(Len(accepted) + 1, Times[1], x.outcome, x.user,
                                  x.ip, x.geo)
                     EXCEPT !.type = x.type, !.action = x.action]
           r == process(rules, ev)
       IN /\ rules' = r.rs
          /\ accepted' = Append(accepted, ev)
          /\ yielded' = yielded \o [i \in 1..Len(r.dets) |->
                                       [event_id |-> ev.event_id, det |-> r.dets[i]]]
    /\ UNCHANGED <<storeVars, routerVars, now, handlerVars, inserted, alertsIn,
                   routed, notified, responses, driverVars>>

InitScope == InitServer /\ NoAgent /\ NoSide /\ scenario = <<>> /\ pool = {}

NextScope == \E x \in ScopeEvents : FeedAny(x)

SpecScope == InitScope /\ [][NextScope]_vars

(***************************************************************************)
(* The engine after a long run of failures from one source (SpecDecay):    *)
(* the run starts when ip1 has failed Backlog times, which is close to the *)
(* cap of the per-source history                                           *)
(***************************************************************************)
BacklogEvents ==
    [i \in 1..Backlog |-> NormalizedEvent(i, Times[1], "failure", "u1", "ip1", "None")]

InitDecay ==
    /\ InitApp /\ NoAgent /\ NoSide /\ scenario = <<>> /\ pool = PoolDecay
    /\ LET r == RunSequential(InitRules, BacklogEvents)
       IN /\ rules = r.rs
          /\ accepted = BacklogEvents
          /\ yielded = r.dets

SpecDecay == InitDecay /\ [][NextEngine]_vars

(***************************************************************************)
(* to_alert called directly on detections (SpecAlertId).  Entity and       *)
(* bucket are texts taken from the event (src.ip, user.name and ts are     *)
(* unvalidated strings), so either may hold the character "|"              *)
(***************************************************************************)
AlertIdDetections ==
    {[rule_id |-> r, entity |-> e, event_ids |-> ids, details |-> dt] :
        r \in {"AUTH001", "AUTH003"},
        e \in {"src_ip:ip1", "src_ip:ip1|7"},
        ids \in {<<1>>, <<2>>},
        dt \in {[bucket |-> "195", n |-> 5], [bucket |-> "7|195", n |-> 5]}}
    \cup
    {[rule_id |-> r, entity |-> e, event_ids |-> ids, details |-> [n |-> 5]] :
        r \in {"AUTH001", "AUTH003"},
        e \in {"src_ip:ip1", "src_ip:ip1|7"},
        ids \in {<<1>>, <<2>>}}

\* alert = engine.to_alert(det, ts)
ToAlertCall(det, ts) ==
    /\ Len(derived) < MaxDerive
    /\ derived' = Append(derived, [det |-> det, ts |-> ts, alert |-> to_alert(det, ts)])
    /\ UNCHANGED <<storeVars, rules, routerVars, now, handlerVars, histVars,
                   scenario, pass, pos, firstCount, pool, sideVars, agentVars>>

InitAlertId == InitServer /\ NoAgent /\ NoSide /\ scenario = <<>> /\ pool = {}

NextAlertId ==
    \E det \in AlertIdDetections, ts \in {Times[1], Times[2], Times[3]} :
       ToAlertCall(det, ts)

SpecAlertId == InitAlertId /\ [][NextAlertId]_vars

(***************************************************************************)
(* The agent: run_tail_auth reading the auth log through follow_file       *)
(* (SpecAgent).  The body of `for line in iterator` is the one statement   *)
(* that counts the line; parsing, the tracker and send_event are indented  *)
(* one level less, under `if source_kind == "journal"` after the loop, and *)
(* follow_file (like follow_journal_sshd) is a `while True` that never     *)
(* returns, so those statements are never reached and have no action here. *)
(***************************************************************************)
\* A line of the log is [prefix, phrases]: whether it starts with the syslog
\* prefix `Mon DD HH:MM:SS host `, and the messages it holds one after the
\* other, each `<verb> for <user> from <addr> port <port>` with whitespace-free
\* tokens.  The addresses of IPs are dotted quads, Addrs adds an IPv6 address.
Addrs == IPs \cup {"2001:db8::1"}

Phrase(verb, user, addr, port) ==
    [verb |-> verb, user |-> user, addr |-> addr, port |-> port]

Line(prefix, phrases) == [prefix |-> prefix, phrases |-> phrases]

AuthLines ==
    {Line(TRUE, <<Phrase("Failed password", "u1", "ip1", "22")>>),
     Line(TRUE, <<Phrase("Accepted password", "u1", "ip1", "22")>>),
     Line(TRUE, <<Phrase("Connection closed", "u1", "ip1", "22")>>)}

\* re.sub(r"^[A-Z][a-z]{2}\s+\d+\s+\d{2}:\d{2}:\d{2}\s+\S+\s+", "", line)
_strip_syslog_prefix(line) == [line EXCEPT !.prefix = FALSE]

\* \d+\.\d+\.\d+\.\d+
IsDottedQuad(tok) == tok \in IPs

\* \d+ and int()
int(tok) == IF tok = "22" THEN <<22>> ELSE IF tok = "2222" THEN <<2222>> ELSE <<>>

\* SSH_FAIL.search(line): the leftmost `Failed password for \S+ from
\* <dotted quad> port <digits>`
SSH_FAIL(line) ==
    SelectSeq(line.phrases, LAMBDA ph : /\ ph.verb = "Failed password"
                                        /\ IsDottedQuad(ph.addr)
                                        /\ int(ph.port) # <<>>)

\* SSH_OK.search(line): the leftmost `Accepted \S+ for \S+ from <dotted quad>
\* port <digits>`
SSH_OK(line) ==
    SelectSeq(line.phrases, LAMBDA ph : /\ ph.verb \in {"Accepted password", "Accepted publickey"}
                                        /\ IsDottedQuad(ph.addr)
                                        /\ int(ph.port) # <<>>)

\* the event made of a line that matches SSH_FAIL or else SSH_OK, else None
parse_sshd_line(line) ==
    LET l == _strip_syslog_prefix(line)
        fail == SSH_FAIL(l)
        ok == SSH_OK(l)
        m == IF fail # <<>> THEN fail ELSE ok
    IN IF m = <<>> THEN <<>>
       ELSE <<[outcome |-> IF fail # <<>> THEN "failure" ELSE "success",
               severity |-> IF fail # <<>> THEN 4 ELSE 3,
               user |-> m[1].user, ip |-> m[1].addr, port |-> int(m[1].port)[1]]>>

\* iterator = follow_file(p, from_start=(mode == "replay") or from_start_live)
\* and the first next(): path.open, f.seek(0, 2) unless from_start
AgentStart ==
    /\ apc = "start"
    /\ offset' = IF mode = "replay" \/ from_start_live THEN 0 ELSE Len(file)
    /\ openInode' = pathInode
    /\ apc' = "readline"
    /\ UNCHANGED <<storeVars, rules, routerVars, now, handlerVars, histVars,
                   scenario, pass, pos, firstCount, pool, sideVars, derived, journalVars,
                   pathInode, newFile,
                   file, mode, from_start_live, dry_run, stats, yieldedLines,
                   produced, posts>>

\* line = f.readline() returns a line: yield line.rstrip("\n")
ReadLine ==
    /\ apc = "readline"
    /\ offset < Len(file)
    /\ offset' = offset + 1
    /\ yieldedLines' = Append(yieldedLines, file[offset + 1])
    /\ apc' = "body"
    /\ UNCHANGED <<storeVars, rules, routerVars, now, handlerVars, histVars,
                   scenario, pass, pos, firstCount, pool, sideVars, derived, journalVars, rotVars,
                   file, mode, from_start_live, dry_run, stats, produced, posts>>

\* line = f.readline() returns "" at the end of the file
ReadEOF ==
    /\ apc = "readline"
    /\ offset = Len(file)
    /\ apc' = "sleep"
    /\ UNCHANGED <<storeVars, rules, routerVars, now, handlerVars, histVars,
                   scenario, pass, pos, firstCount, pool, sideVars, derived, journalVars, rotVars,
                   file, offset, mode, from_start_live, dry_run, stats,
                   yieldedLines, produced, posts>>

\* time.sleep(sleep_s); continue
WakeUp ==
    /\ apc = "sleep"
    /\ apc' = "readline"
    /\ UNCHANGED <<storeVars, rules, routerVars, now, handlerVars, histVars,
                   scenario, pass, pos, firstCount, pool, sideVars, derived, journalVars, rotVars,
                   file, offset, mode, from_start_live, dry_run, stats,
                   yieldedLines, produced, posts>>

\* mutant: every line is counted as parsed, too
LoopBody_parsed ==
    /\ apc = "body"
    /\ stats' = [stats EXCEPT !.read = @ + 1, !.parsed = @ + 1]
    /\ apc' = "readline"
    /\ UNCHANGED <<storeVars, rules, routerVars, now, handlerVars, histVars,
                   scenario, pass, pos, firstCount, pool, sideVars, derived, journalVars, rotVars,
                   file, offset, mode, from_start_live, dry_run,
                   yieldedLines, produced, posts>>

\* the body of the for loop: stats = TailStats(read=stats.read + 1, ...);
\* then the loop asks the follower for the next line
LoopBody ==
    /\ apc = "body"
    /\ stats' = [stats EXCEPT !.read = @ + 1]
    /\ apc' = "readline"
    /\ UNCHANGED <<storeVars, rules, routerVars, now, handlerVars, histVars,
                   scenario, pass, pos, firstCount, pool, sideVars, derived, journalVars, rotVars,
                   file, offset, mode, from_start_live, dry_run,
                   yieldedLines, produced, posts>>

\* sshd logs one more line to the file at the path
AppendLine(l) ==
    /\ Len(file) + Len(newFile) < MaxLines
    /\ IF openInode \in {0, pathInode}
       THEN file' = Append(file, l) /\ UNCHANGED newFile
       ELSE newFile' = Append(newFile, l) /\ UNCHANGED file
    /\ UNCHANGED <<storeVars, rules, routerVars, now, handlerVars, histVars,
                   scenario, pass, pos, firstCount, pool, sideVars, derived, journalVars,
                   pathInode, openInode,
                   offset, apc, mode, from_start_live, dry_run, stats,
                   yieldedLines, produced, posts>>

\* logrotate replaces the file at the path by a new, empty one; the open
\* handle keeps the old file
Rotate ==
    /\ openInode # 0
    /\ pathInode <= MaxRotations
    /\ pathInode' = pathInode + 1
    /\ newFile' = <<>>
    /\ UNCHANGED <<storeVars, rules, routerVars, now, handlerVars, histVars,
                   scenario, pass, pos, firstCount, pool, sideVars, derived, journalVars,
                   openInode,
                   file, offset, apc, mode, from_start_live, dry_run, stats,
                   yieldedLines, produced, posts>>

InitAgent ==
    /\ InitServer /\ NoSide /\ scenario = <<>> /\ pool = {}
    /\ file \in SeqsUpTo(AuthLines, MaxLines)
    /\ offset = 0
    /\ apc = "start"
    /\ mode \in {"live", "replay"}
    /\ from_start_live \in BOOLEAN
    /\ dry_run \in BOOLEAN
    /\ stats = NoStats
    /\ yieldedLines = <<>>
    /\ produced = <<>>
    /\ posts = <<>>
    /\ pathInode = 1
    /\ openInode = 0
    /\ newFile = <<>>
    /\ NoJournal

\* the steps of the agent process
AgentStep ==
    \/ AgentStart
    \/ ReadLine
    \/ ReadEOF
    \/ WakeUp
    \/ LoopBody

NextAgent ==
    \/ AgentStep
    \/ \E l \in AuthLines : AppendLine(l)
    \/ Rotate

SpecAgent == InitAgent /\ [][NextAgent]_vars

\* the agent process is scheduled as long as it can take a step
SpecAgentFair == SpecAgent /\ WF_vars(AgentStep)

(***************************************************************************)
(* pick_auth_source called directly (SpecSource).  The host is the set of  *)
(* paths that are readable regular files and whether the journalctl probe  *)
(* exits 0.                                                                *)
(***************************************************************************)
DEFAULT_AUTH_PATH_CANDIDATES == <<"/var/log/auth.log", "/var/log/secure", "/var/log/messages">>

\* paths a caller may request: a candidate or another file
RequestedPaths == Range(DEFAULT_AUTH_PATH_CANDIDATES) \cup {"/srv/lab/auth.log"}

\* the first readable candidate, else None
FirstReadable(readable) ==
    LET hits == SelectSeq(DEFAULT_AUTH_PATH_CANDIDATES, LAMBDA c : c \in readable)
    IN IF hits = <<>> THEN "None" ELSE hits[1]

AutoSourceDecision(kind, path) == [kind |-> kind, path |-> path]

pick_auth_source(requested_path, prefer, readable, journalctl_available) ==
    LET file_target == IF requested_path = "None" THEN FirstReadable(readable)
                       ELSE requested_path
    IN IF prefer = "file" THEN AutoSourceDecision("file", file_target)
       ELSE IF prefer = "journal" THEN AutoSourceDecision("journal", "None")
       ELSE IF file_target # "None" /\ file_target \in readable
            THEN AutoSourceDecision("file", file_target)
       ELSE IF journalctl_available THEN AutoSourceDecision("journal", "None")
       ELSE AutoSourceDecision("file", file_target)

\* decision = pick_auth_source(log_path, prefer=source)
PickCall(requested_path, prefer, readable, journalctl_available) ==
    /\ Len(derived) < MaxPick
    /\ derived' = Append(derived,
                         [requested_path |-> requested_path, prefer |-> prefer,
                          readable |-> readable,
                          journalctl_available |-> journalctl_available,
                          decision |-> pick_auth_source(requested_path, prefer, readable,
                                                        journalctl_available)])
    /\ UNCHANGED <<storeVars, rules, routerVars, now, handlerVars, histVars,
                   scenario, pass, pos, firstCount, pool, sideVars, agentVars>>

InitSource == InitServer /\ NoAgent /\ NoSide /\ scenario = <<>> /\ pool = {}

NextSource ==
    \E requested_path \in RequestedPaths \cup {"None"},
       prefer \in {"auto", "file", "journal"},
       readable \in SUBSET RequestedPaths,
       journalctl_available \in BOOLEAN :
          PickCall(requested_path, prefer, readable, journalctl_available)

SpecSource == InitSource /\ [][NextSource]_vars

(***************************************************************************)
(* parse_sshd_line called directly on lines (SpecParse)                    *)
(***************************************************************************)
ParsePhrases ==
    {Phrase(v, u, a, p) :
        v \in {"Failed password", "Accepted publickey", "Connection closed"},
        u \in {"u1", "u2"}, a \in {"ip1", "2001:db8::1"}, p \in {"22"}}

\* lines of one or two messages, with and without the syslog prefix
ParseLines ==
    {Line(pre, q) : pre \in BOOLEAN, q \in SeqsUpTo(ParsePhrases, 2) \ {<<>>}}

\* ev = parse_sshd_line(line, ...)
ParseCall(line) ==
    /\ Len(derived) < MaxParse
    /\ derived' = Append(derived, [line |-> line, ev |-> parse_sshd_line(line)])
    /\ UNCHANGED <<storeVars, rules, routerVars, now, handlerVars, histVars,
                   scenario, pass, pos, firstCount, pool, sideVars, agentVars>>

InitParse == InitServer /\ NoAgent /\ NoSide /\ scenario = <<>> /\ pool = {}

NextParse == \E line \in ParseLines : ParseCall(line)

SpecParse == InitParse /\ [][NextParse]_vars

(***************************************************************************)
(* The agent reading the journal through follow_journal_sshd               *)
(* (SpecJournal).  An entry of the journal is [seq, ts, msg]: ts is the    *)
(* second it was written in and seq its position in the journal; the line  *)
(* `journalctl -o short` prints for it is the text of ts and msg, without   *)
(* seq.  The consumer's loop body (count the line) is part of the yield.    *)
(***************************************************************************)
StartClock == 1000

JournalMsgs == {"Failed password for u1 from ip1 port 22", "Accepted password for u1 from ip1 port 22"}

\* the line printed for an entry
ShortLine(e) == <<e.ts, e.msg>>

\* what the journal may hold when the agent starts: nothing, an entry older
\* than ten minutes, entries of the last seconds
PreJournals ==
    {[i \in 1..Len(q) |-> [seq |-> i, ts |-> q[i], msg |-> "Failed password for u1 from ip1 port 22"]] :
        q \in {<<>>, <<300>>, <<995>>, <<300, 995>>, <<995, 995>>}}

\* bump_recent(s): is the line new, and the deque and set afterwards
bump_recent(rc, rset, line) ==
    IF line \in rset THEN [new |-> FALSE, recent |-> rc, recent_set |-> rset]
    ELSE LET appended == IF Len(rc) = maxlen THEN Append(Tail(rc), line)
                         ELSE Append(rc, line)
         IN [new |-> TRUE, recent |-> appended,
             recent_set |-> IF Len(appended) = maxlen THEN Range(appended)
                            ELSE rset \cup {line}]

agentFileVars == <<file, from_start_live, dry_run, produced, posts, rotVars>>

\* iterator = follow_journal_sshd(from_start=(mode == "replay")) and the
\* first next(): the start of the window
JournalStart ==
    /\ apc = "start"
    /\ since' = IF mode = "replay" THEN 0 ELSE clock - live_lookback_s
    /\ offset' = Len(journal)
    /\ apc' = "poll"
    /\ UNCHANGED <<storeVars, rules, routerVars, now, handlerVars, histVars,
                   scenario, pass, pos, firstCount, pool, sideVars, derived, agentFileVars,
                   mode, stats, yieldedLines, journal, clock, recent, recent_set,
                   stdout>>

\* r = subprocess.run(["journalctl", ..., "--since", since, ...])
Poll ==
    /\ apc = "poll"
    /\ stdout' = SelectSeq(journal, LAMBDA e : e.ts >= since)
    /\ apc' = "lines"
    /\ UNCHANGED <<storeVars, rules, routerVars, now, handlerVars, histVars,
                   scenario, pass, pos, firstCount, pool, sideVars, derived, agentFileVars,
                   offset, mode, stats, yieldedLines, journal, clock, since,
                   recent, recent_set>>

\* for line in r.stdout.splitlines(): if bump_recent(line): yield line;
\* the consumer counts the line and asks for the next
NextLine ==
    /\ apc = "lines"
    /\ stdout # <<>>
    /\ LET b == bump_recent(recent, recent_set, ShortLine(Head(stdout)))
       IN /\ recent' = b.recent
          /\ recent_set' = b.recent_set
          /\ IF b.new
             THEN /\ yieldedLines' = Append(yieldedLines, Head(stdout))
                  /\ stats' = [stats EXCEPT !.read = @ + 1]
             ELSE UNCHANGED <<yieldedLines, stats>>
    /\ stdout' = Tail(stdout)
    /\ UNCHANGED <<storeVars, rules, routerVars, now, handlerVars, histVars,
                   scenario, pass, pos, firstCount, pool, sideVars, derived, agentFileVars,
                   offset, apc, mode, journal, clock, since>>

\* since = now - 1 s; time.sleep(poll_s)
MoveCursor ==
    /\ apc = "lines"
    /\ stdout = <<>>
    /\ since' = clock - overlap_s
    /\ apc' = "poll"
    /\ UNCHANGED <<storeVars, rules, routerVars, now, handlerVars, histVars,
                   scenario, pass, pos, firstCount, pool, sideVars, derived, agentFileVars,
                   offset, mode, stats, yieldedLines, journal, clock, recent,
                   recent_set, stdout>>

\* sshd logs one more entry
JournalWrite(m) ==
    /\ Len(journal) < MaxEntries
    /\ journal' = Append(journal, [seq |-> Len(journal) + 1, ts |-> clock, msg |-> m])
    /\ UNCHANGED <<storeVars, rules, routerVars, now, handlerVars, histVars,
                   scenario, pass, pos, firstCount, pool, sideVars, derived, agentFileVars,
                   offset, apc, mode, stats, yieldedLines, clock, since, recent,
                   recent_set, stdout>>

\* a second passes.  Time is taken to pass only while the follower sleeps:
\* a poll and the handling of its output take less than a second
ClockTick ==
    /\ clock < StartClock + MaxTicks
    /\ apc = "poll"
    /\ clock' = clock + 1
    /\ UNCHANGED <<storeVars, rules, routerVars, now, handlerVars, histVars,
                   scenario, pass, pos, firstCount, pool, sideVars, derived, agentFileVars,
                   offset, apc, mode, stats, yieldedLines, journal, since, recent,
                   recent_set, stdout>>

InitJournal ==
    /\ InitServer /\ NoSide /\ scenario = <<>> /\ pool = {}
    /\ file = <<>>
    /\ offset = 0
    /\ apc = "start"
    /\ mode \in {"live", "replay"}
    /\ from_start_live = FALSE
    /\ dry_run = FALSE
    /\ stats = NoStats
    /\ yieldedLines = <<>>
    /\ produced = <<>>
    /\ posts = <<>>
    /\ pathInode = 1
    /\ openInode = 0
    /\ newFile = <<>>
    /\ journal \in PreJournals
    /\ clock = StartClock
    /\ since = 0
    /\ recent = <<>>
    /\ recent_set = {}
    /\ stdout = <<>>

JournalStep ==
    \/ JournalStart
    \/ Poll
    \/ NextLine
    \/ MoveCursor

NextJournal ==
    \/ JournalStep
    \/ \E m \in JournalMsgs : JournalWrite(m)
    \/ ClockTick

SpecJournal == InitJournal /\ [][NextJournal]_vars

(***************************************************************************)
(* The burst tracker of the agent, observe_failure called directly         *)
(* (SpecTracker).  An event is what parse_sshd_line returns; time.time()   *)
(* is read as whole seconds                                                *)
(***************************************************************************)
\* _IPState(first_seen=now, last_seen=now); the default of window_reset_at
\* reads the clock again, in the same second
_IPState(t) ==
    [first_seen |-> t, last_seen |-> t, last_emit |-> 0, total_failures |-> 0,
     window_failures |-> 0, window_reset_at |-> t, users |-> {}, ports |-> {}]

\* mutant: the window is never reset
Window_keep(st, t) ==
    st

\* if now - st.window_reset_at > self.window_s: start a new window
Window(st, t) ==
    IF t - st.window_reset_at > local_bruteforce_window_s
    THEN [st EXCEPT !.window_reset_at = t, !.window_failures = 0,
                    !.users = {}, !.ports = {}]
    ELSE st

\* mutant: the cooldown is not looked at
Emits_nocooldown(st, t) ==
    st.window_failures >= local_bruteforce_threshold

\* the two early returns before the record is written
Emits(st, t) ==
    /\ st.window_failures >= local_bruteforce_threshold
    /\ ~(local_bruteforce_cooldown_s # 0 /\ t - st.last_emit < local_bruteforce_cooldown_s)

\* the record of the suspicious log
SuspiciousRecord(st, ip, t) ==
    [ts |-> t, ip |-> ip, ports |-> st.ports, usernames |-> st.users,
     window_failures |-> st.window_failures, total_failures |-> st.total_failures]

\* SuspiciousTracker.observe_failure at time t: the tracker's state afterwards
\* and the records appended to the log
observe_failure(ts, ev, t) ==
    IF ev.ip = "None" THEN [tstate |-> ts, recs |-> <<>>, reset |-> FALSE]
    ELSE LET fresh == ev.ip \notin DOMAIN ts
             st0 == IF fresh THEN _IPState(t) ELSE ts[ev.ip]
             st1 == [st0 EXCEPT !.last_seen = t, !.total_failures = @ + 1]
             st2 == Window(st1, t)
             st3 == [st2 EXCEPT !.window_failures = @ + 1,
                                !.users = IF ev.user # "None" THEN @ \cup {ev.user} ELSE @,
                                !.ports = IF ev.port \in Int THEN @ \cup {ev.port} ELSE @]
             emit == Emits(st3, t)
             st4 == IF emit THEN [st3 EXCEPT !.last_emit = t] ELSE st3
         IN [tstate |-> Put(ts, ev.ip, st4),
             recs |-> IF emit THEN <<SuspiciousRecord(st4, ev.ip, t)>> ELSE <<>>,
             reset |-> fresh \/ st2.window_reset_at # st1.window_reset_at]

\* failures as parse_sshd_line returns them
TrackerEvents ==
    {[outcome |-> "failure", severity |-> 4, user |-> u, ip |-> ip, port |-> port] :
        <<u, ip, port>> \in {<<"u1", "ip1", 22>>, <<"u2", "ip1", 2222>>,
                             <<"u1", "ip2", 22>>}}

\* tracker.observe_failure(ev)
Observe(ev) ==
    /\ Len(observed) < MaxObserve
    /\ LET r == observe_failure(tstate, ev, clock)
       IN /\ tstate' = r.tstate
          /\ suspicious' = suspicious \o r.recs
          /\ observed' = Append(observed,
                [ip |-> ev.ip, user |-> ev.user, port |-> ev.port, at |-> clock,
                 reset |-> r.reset, wrote |-> r.recs # <<>>])
    /\ UNCHANGED <<storeVars, rules, routerVars, now, handlerVars, histVars,
                   scenario, pass, pos, firstCount, pool, replayVars, boots, derived,
                   agentVars>>

TrackerSteps == {60, 61}

\* time passes between two calls
TrackerTick(d) ==
    /\ clock + d <= StartClock + MaxSpan
    /\ clock' = clock + d
    /\ UNCHANGED <<storeVars, rules, routerVars, now, handlerVars, histVars,
                   scenario, pass, pos, firstCount, pool, sideVars, derived,
                   file, offset, apc, mode, from_start_live, dry_run, stats,
                   yieldedLines, produced, posts, rotVars,
                   journal, since, recent, recent_set, stdout>>

InitTracker ==
    /\ InitServer /\ NoSide /\ scenario = <<>> /\ pool = {}
    /\ file = <<>>
    /\ offset = 0
    /\ apc = "off"
    /\ mode = "live"
    /\ from_start_live = FALSE
    /\ dry_run = FALSE
    /\ stats = NoStats
    /\ yieldedLines = <<>>
    /\ produced = <<>>
    /\ posts = <<>>
    /\ pathInode = 1
    /\ openInode = 0
    /\ newFile = <<>>
    /\ journal = <<>>
    /\ clock = StartClock
    /\ since = 0
    /\ recent = <<>>
    /\ recent_set = {}
    /\ stdout = <<>>

NextTracker ==
    \/ \E ev \in TrackerEvents : Observe(ev)
    \/ \E d \in TrackerSteps : TrackerTick(d)

SpecTracker == InitTracker /\ [][NextTracker]_vars

(***************************************************************************)
(* The replay driver alone, against a server that may answer an error or   *)
(* not answer at all (SpecDriver).  A line of the scenario file is a       *)
(* payload, a blank line, a comment or text that is not JSON               *)
(***************************************************************************)
ScenarioLines ==
    {[kind |-> "payload", text |-> "e1"], [kind |-> "payload", text |-> "e2"],
     [kind |-> "blank", text |-> ""], [kind |-> "comment", text |-> "# note"],
     [kind |-> "invalid", text |-> "{e1"]}

ScenarioFiles == SeqsUpTo(ScenarioLines, MaxFileLines)

\* what client.post does: a response with a status, or an exception
PostOutcomes ==
    {[raised |-> FALSE, status |-> 200], [raised |-> FALSE, status |-> 422],
     [raised |-> FALSE, status |-> 500], [raised |-> TRUE, status |-> 0]}

\* iter_jsonl: if not line or line.startswith("#"): continue
ReplaySkip ==
    /\ pass = 1
    /\ pos <= Len(scenario)
    /\ scenario[pos].kind \in {"blank", "comment"}
    /\ pos' = pos + 1
    /\ UNCHANGED <<storeVars, rules, routerVars, now, handlerVars, histVars,
                   scenario, pass, firstCount, pool, sideVars, derived, agentVars>>

\* sent += 1; r = client.post(...); failed += 1 if r.status_code >= 400 or
\* if the POST raised
ReplayPost(o) ==
    /\ pass = 1
    /\ pos <= Len(scenario)
    /\ scenario[pos].kind = "payload"
    /\ rstats' = [sent |-> rstats.sent + 1,
                  failed |-> rstats.failed + (IF o.raised \/ o.status >= 400 THEN 1 ELSE 0)]
    /\ replayed' = Append(replayed, [line |-> pos, text |-> scenario[pos].text,
                                     posted |-> TRUE, outcome |-> o])
    /\ pos' = pos + 1
    /\ UNCHANGED <<storeVars, rules, routerVars, now, handlerVars, histVars,
                   scenario, pass, firstCount, pool, trackerVars, boots, derived,
                   agentVars>>

\* json.loads fails: iter_jsonl raises ValueError, which leaves replay_scenario
ReplayInvalid ==
    /\ pass = 1
    /\ pos <= Len(scenario)
    /\ scenario[pos].kind = "invalid"
    /\ replayed' = Append(replayed, [line |-> pos, text |-> scenario[pos].text,
                                     posted |-> FALSE,
                                     outcome |-> [raised |-> TRUE, status |-> 0]])
    /\ pass' = 3
    /\ UNCHANGED <<storeVars, rules, routerVars, now, handlerVars, histVars,
                   scenario, pos, firstCount, pool, trackerVars, rstats, boots, derived,
                   agentVars>>

\* the file is exhausted: return ReplayStats(sent=sent, failed=failed)
ReplayReturn ==
    /\ pass = 1
    /\ pos > Len(scenario)
    /\ pass' = 3
    /\ UNCHANGED <<storeVars, rules, routerVars, now, handlerVars, histVars,
                   scenario, pos, firstCount, pool, sideVars, derived, agentVars>>

InitDriver ==
    /\ InitServer /\ NoAgent /\ NoSide /\ scenario \in ScenarioFiles /\ pool = {}

NextDriver ==
    \/ ReplaySkip
    \/ \E o \in PostOutcomes : ReplayPost(o)
    \/ ReplayInvalid
    \/ ReplayReturn

SpecDriver == InitDriver /\ [][NextDriver]_vars

(***************************************************************************)
(* Properties                                                              *)
(***************************************************************************)
\* index of the last call before j that notified the alert_id of call j (0: none)
PrevNotified(j) ==
    LET S == {i \in 1..(j - 1) : /\ routed[i].alert_id = routed[j].alert_id
                                 /\ routed[i].result = "notified"}
    IN IF S = {} THEN 0 ELSE CHOOSE i \in S : \A k \in S : k <= i

\* C1: a route call is suppressed exactly when the same alert_id was notified
\* at most TTL before it, so the first route of an ID notifies and two notifier
\* calls for one alert_id are always more than TTL apart.
C1_NotifyOncePerTTL ==
    /\ \A j \in 1..Len(routed) :
          routed[j].result = "suppressed" <=>
             /\ PrevNotified(j) # 0
             /\ routed[j].at - routed[PrevNotified(j)].at <= ttl_minutes
    /\ \A i, j \in 1..Len(notified) :
          (i < j /\ notified[i].alert_id = notified[j].alert_id)
             => notified[j].at - notified[i].at > ttl_minutes

C1_Witness ==
    \E i, j, k \in 1..Len(routed) :
       /\ i < j /\ j < k
       /\ routed[i].alert_id = routed[j].alert_id
       /\ routed[j].alert_id = routed[k].alert_id
       /\ routed[i].result = "notified"
       /\ routed[j].result = "suppressed"
       /\ routed[k].result = "suppressed"
       /\ routed[k].at - routed[i].at = ttl_minutes

\* C2: a notification reports the number of routes of its alert_id suppressed
\* since the previous notification of that ID, and it clears the counter: once
\* the route has returned, the ID has no suppressed count.
C2_SuppressedCount ==
    /\ \A j \in 1..Len(routed) :
          routed[j].result = "notified" =>
             routed[j].n = Cardinality({i \in (PrevNotified(j) + 1)..(j - 1) :
                                           /\ routed[i].alert_id = routed[j].alert_id
                                           /\ routed[i].result = "suppressed"})
    /\ \A j \in 1..Len(routed) :
          (/\ routed[j].result = "notified"
           /\ \A i \in (j + 1)..Len(routed) : routed[i].alert_id # routed[j].alert_id)
             => Lookup(suppressed, routed[j].alert_id, 0) = 0
    /\ \A j \in 1..Len(routed) :
          (/\ PrevNotified(j) # 0
           /\ routed[j].at - routed[PrevNotified(j)].at > ttl_minutes)
             => routed[j].result = "notified"

C2_Witness ==
    \E i, j \in 1..Len(routed) :
       /\ i < j
       /\ routed[i].alert_id = routed[j].alert_id
       /\ routed[i].result = "notified"
       /\ routed[j].result = "notified"
       /\ routed[j].n = 2
       /\ routed[j].at - routed[i].at > ttl_minutes
       /\ pc[1] = "idle"

\* index of the first / last insert of the key of inserts[j]
FirstInsert(log, key(_), j) ==
    CHOOSE i \in 1..Len(log) :
       key(log[i]) = key(log[j]) /\ \A k \in 1..(i - 1) : key(log[k]) # key(log[j])

LastInsert(log, key(_), j) ==
    CHOOSE i \in 1..Len(log) :
       key(log[i]) = key(log[j]) /\ \A k \in (i + 1)..Len(log) : key(log[k]) # key(log[j])

AlertKey(a) == a.alert_id

EventKey(e) == e.event_id

\* C8: the alerts table holds one row per alert_id given to insert_alert, and
\* the row is the alert of the first insert of that ID (ts, event_ids and
\* details included): later inserts of the ID change nothing.
C8_AlertInsertOnce ==
    /\ DOMAIN alerts = {alertsIn[i].alert_id : i \in 1..Len(alertsIn)}
    /\ \A j \in 1..Len(alertsIn) :
          alerts[alertsIn[j].alert_id] = alertsIn[FirstInsert(alertsIn, AlertKey, j)]

C8_Witness ==
    \E i, j \in 1..Len(alertsIn) :
       /\ i < j
       /\ alertsIn[i].alert_id = alertsIn[j].alert_id
       /\ alertsIn[i].ts # alertsIn[j].ts
       /\ alertsIn[i].event_ids # alertsIn[j].event_ids
       /\ alerts[alertsIn[j].alert_id] = alertsIn[i]

\* C9: the events table holds one row per event_id given to insert_events, the
\* row is the event of the last insert of that ID, and recent_events(N) returns
\* N events when N distinct IDs were inserted.
C9_EventUpsert ==
    /\ DOMAIN events = {inserted[i].event_id : i \in 1..Len(inserted)}
    /\ \A j \in 1..Len(inserted) :
          events[inserted[j].event_id] = inserted[LastInsert(inserted, EventKey, j)]
    /\ LET N == Cardinality({inserted[i].event_id : i \in 1..Len(inserted)})
       IN /\ recent_events(events, N) # {}
          /\ \A s \in recent_events(events, N) : Len(s) = N

C9_Witness ==
    /\ Cardinality(DOMAIN events) = 2
    /\ \E i, j \in 1..Len(inserted) :
          /\ i < j
          /\ inserted[i].event_id = inserted[j].event_id
          /\ inserted[i] # inserted[j]
          /\ events[inserted[j].event_id] = inserted[j]

AllIdle == \A h \in Handlers : pc[h] = "idle"

\* C3: whatever the interleaving of concurrent requests, the notifier is
\* invoked at most once for an alert_id within the TTL.
C3_ConcurrentNotifyOnce ==
    \A a \in {notified[i].alert_id : i \in 1..Len(notified)} :
       Cardinality({i \in 1..Len(notified) :
                       /\ notified[i].alert_id = a
                       /\ now - notified[i].at <= ttl_minutes}) <= 1

\* C4: once all concurrent requests have returned, the rule state and the
\* detections emitted are those of the same events processed one at a time in
\* some order.
C4_Serializable ==
    AllIdle =>
       \E p \in Perms(1..Len(accepted)) :
          LET r == RunSequential(InitRules, [i \in 1..Len(accepted) |-> accepted[p[i]]])
          IN /\ r.rs = rules
             /\ Len(r.dets) = Len(yielded)
             /\ Range(r.dets) = Range(yielded)

\* C5: every validated event whose request has ended is in the events table,
\* in events.jsonl, and was seen by all five rules, whatever failed later in
\* the request.
C5_NeverDropsValidated ==
    \A k \in 1..Len(responses) :
       /\ responses[k].event_id \in DOMAIN events
       /\ \E i \in 1..Len(jsonl) : jsonl[i].event_id = responses[k].event_id
       /\ responses[k].fed = 1..5

\* C6: a request in which the notifier raised still completes with ok and all
\* five rules have seen its event.
C6_NotifierErrorContained ==
    \A k \in 1..Len(responses) :
       responses[k].raised => (responses[k].ok /\ responses[k].fed = 1..5)

\* C7: after a scenario was replayed twice into the same server, the alerts
\* table has no more rows than after the first replay.
C7_ReplayAddsNoAlert ==
    pass = 3 => Cardinality(DOMAIN alerts) <= firstCount

\* C10: an event_id posted again is not appended to events.jsonl a second
\* time and is not counted a second time in AUTH001's per-IP history.
C10_RetryIdempotent ==
    /\ \A i, j \in 1..Len(jsonl) : i < j => jsonl[i].event_id # jsonl[j].event_id
    /\ \A ip \in IPs : \A i, j \in 1..Len(rules.fails[ip]) :
          i < j => rules.fails[ip][i][2] # rules.fails[ip][j][2]

(***************************************************************************)
(* Properties of the rules, over the events fed and the detections yielded *)
(***************************************************************************)
\* positions in `yielded` of the detections of rule `rule` for the j-th event
DetsOf(j, rule) ==
    {k \in 1..Len(yielded) : /\ yielded[k].event_id = accepted[j].event_id
                             /\ yielded[k].det.rule_id = rule}

\* positions up to j of the SSH failures from the source of the j-th event
FailuresFrom(j) ==
    {i \in 1..j : /\ accepted[i].outcome = "failure"
                  /\ accepted[i].src_ip = accepted[j].src_ip}

\* the last n elements of a set of positions, in order
RECURSIVE Newest(_, _)
Newest(S, n) ==
    IF n = 0 \/ S = {} THEN <<>>
    ELSE LET m == CHOOSE x \in S : \A y \in S : y <= x
         IN Append(Newest(S \ {m}, n - 1), m)

\* C11: an event yields an AUTH001 detection exactly when it is an SSH failure
\* with a source IP and at least 5 failures from that source were fed up to and
\* including it (the 4th does not fire, the 5th does); the detection's entity
\* is src_ip:<ip> and its event_ids are the last 5 failures of the source.
C11_BruteForceThreshold ==
    \A j \in 1..Len(accepted) :
       /\ Cardinality(DetsOf(j, "AUTH001")) <= 1
       /\ DetsOf(j, "AUTH001") # {} <=>
             /\ accepted[j].outcome = "failure"
             /\ accepted[j].src_ip # "None"
             /\ Cardinality(FailuresFrom(j)) >= 5
       /\ \A k \in DetsOf(j, "AUTH001") :
             /\ yielded[k].det.entity = "src_ip:" \o accepted[j].src_ip
             /\ yielded[k].det.event_ids =
                   [i \in 1..5 |-> accepted[Newest(FailuresFrom(j), 5)[i]].event_id]

C11_Witness ==
    \E j \in 1..Len(accepted) :
       /\ j > 5
       /\ accepted[j].src_ip = "ip1"
       /\ Cardinality(FailuresFrom(j)) = 5
       /\ DetsOf(j, "AUTH001") # {}
       /\ \A i \in 1..(j - 1) : DetsOf(i, "AUTH001") = {}

\* positions up to j of the failures with a user from the source of the j-th
\* event within the minute of the j-th event
SprayPeers(j) ==
    {i \in 1..j : /\ accepted[i].outcome = "failure"
                  /\ accepted[i].user # "None"
                  /\ accepted[i].src_ip = accepted[j].src_ip
                  /\ accepted[i].ts \div 60 = accepted[j].ts \div 60}

SprayUsers(j) == {accepted[i].user : i \in SprayPeers(j)}

SprayOf(j, u) == {i \in SprayPeers(j) : accepted[i].user = u}

\* C12: an event yields an AUTH002 detection exactly when it is a failure with
\* a user and a source IP, at least 4 distinct users failed from that source
\* within the event's minute, and each of them failed at most twice there;
\* failures of other minutes or other sources do not count; the detection
\* carries one event ID per user, that user's newest.
C12_PasswordSpray ==
    \A j \in 1..Len(accepted) :
       /\ Cardinality(DetsOf(j, "AUTH002")) <= 1
       /\ DetsOf(j, "AUTH002") # {} <=>
             /\ accepted[j].outcome = "failure"
             /\ accepted[j].user # "None"
             /\ accepted[j].src_ip # "None"
             /\ Cardinality(SprayUsers(j)) >= 4
             /\ \A u \in SprayUsers(j) : Cardinality(SprayOf(j, u)) <= 2
       /\ \A k \in DetsOf(j, "AUTH002") :
             /\ yielded[k].det.entity = "src_ip:" \o accepted[j].src_ip
             /\ Len(yielded[k].det.event_ids) = Cardinality(SprayUsers(j))
             /\ Range(yielded[k].det.event_ids) =
                   {accepted[Newest(SprayOf(j, u), 1)[1]].event_id : u \in SprayUsers(j)}

\* the spray fires with four users of whom one failed twice, although a fifth
\* user failed from the same source a minute later
C12_Witness ==
    \E j \in 1..Len(accepted) :
       /\ DetsOf(j, "AUTH002") # {}
       /\ Cardinality(SprayUsers(j)) = 4
       /\ \E u \in SprayUsers(j) : Cardinality(SprayOf(j, u)) = 2
       /\ \E i \in 1..(j - 1) :
             /\ accepted[i].outcome = "failure"
             /\ accepted[i].src_ip = accepted[j].src_ip
             /\ accepted[i].ts \div 60 # accepted[j].ts \div 60

\* a user with three failures in the minute keeps the rule silent
C12_WitnessQuiet ==
    \E j \in 1..Len(accepted) :
       /\ accepted[j].outcome = "failure" /\ accepted[j].user # "None"
       /\ Cardinality(SprayUsers(j)) >= 4
       /\ \E u \in SprayUsers(j) : Cardinality(SprayOf(j, u)) = 3
       /\ DetsOf(j, "AUTH002") = {}

\* positions before j of the successful logins, with a source IP, of the user
\* of the j-th event
EarlierLogins(j) ==
    {i \in 1..(j - 1) : /\ accepted[i].outcome = "success"
                        /\ accepted[i].src_ip # "None"
                        /\ accepted[i].user = accepted[j].user}

\* C13: a successful login with user and source IP yields an AUTH003 detection
\* (entity user:<name>) exactly when the user logged in before and never from
\* this IP; the known-IP set of a user is the set of IPs of the user's
\* successful logins, and the number of AUTH003 detections of a user is the
\* size of that set minus one, or zero when the set is empty.
C13_NewIPForUser ==
    /\ \A j \in 1..Len(accepted) :
          /\ Cardinality(DetsOf(j, "AUTH003")) <= 1
          /\ DetsOf(j, "AUTH003") # {} <=>
                /\ accepted[j].outcome = "success"
                /\ accepted[j].user # "None"
                /\ accepted[j].src_ip # "None"
                /\ EarlierLogins(j) # {}
                /\ \A i \in EarlierLogins(j) : accepted[i].src_ip # accepted[j].src_ip
          /\ \A k \in DetsOf(j, "AUTH003") :
                /\ yielded[k].det.entity = "user:" \o accepted[j].user
                /\ yielded[k].det.event_ids = <<accepted[j].event_id>>
    /\ \A u \in UserNames :
          /\ rules.known[u] = {accepted[i].src_ip : i \in
                                  {i \in 1..Len(accepted) :
                                      /\ accepted[i].outcome = "success"
                                      /\ accepted[i].user = u
                                      /\ accepted[i].src_ip # "None"}}
          /\ Cardinality({k \in 1..Len(yielded) :
                             /\ yielded[k].det.rule_id = "AUTH003"
                             /\ yielded[k].det.entity = "user:" \o u})
                = IF rules.known[u] = {} THEN 0 ELSE Cardinality(rules.known[u]) - 1

\* u1 logged in from three IPs and once more from a known one, u2 from one
C13_Witness ==
    /\ Cardinality(rules.known["u1"]) = 3
    /\ Cardinality(rules.known["u2"]) = 1
    /\ Cardinality({k \in 1..Len(yielded) : yielded[k].det.rule_id = "AUTH003"}) = 2
    /\ \E j \in 1..Len(accepted) :
          /\ accepted[j].outcome = "success" /\ accepted[j].user = "u1"
          /\ \E i \in EarlierLogins(j) : accepted[i].src_ip = accepted[j].src_ip

\* C14: an event yields an AUTH004 detection (entity user:<name>) exactly when
\* it is a successful login with a user name whose UTC hour is below 8 or at
\* least 18, whatever was fed before it: 18:00:00 fires, 08:00:00 does not.
C14_OffHours ==
    \A j \in 1..Len(accepted) :
       /\ Cardinality(DetsOf(j, "AUTH004")) <= 1
       /\ DetsOf(j, "AUTH004") # {} <=>
             /\ accepted[j].outcome = "success"
             /\ accepted[j].user # "None"
             /\ \/ (accepted[j].ts \div 3600) % 24 < 8
                \/ (accepted[j].ts \div 3600) % 24 >= 18
       /\ \A k \in DetsOf(j, "AUTH004") :
             /\ yielded[k].det.entity = "user:" \o accepted[j].user
             /\ yielded[k].det.event_ids = <<accepted[j].event_id>>

\* logins at 07:59:59, 08:00:00, 17:59:59 and 18:00:00 in one run
C14_Witness ==
    \E a, b, c, e \in 1..Len(accepted) :
       /\ accepted[a].ts = 28799 /\ DetsOf(a, "AUTH004") # {}
       /\ accepted[b].ts = 28800 /\ DetsOf(b, "AUTH004") = {}
       /\ accepted[c].ts = 64799 /\ DetsOf(c, "AUTH004") = {}
       /\ accepted[e].ts = 64800 /\ DetsOf(e, "AUTH004") # {}

\* positions up to j of the successful logins with geo of user u
GeoLogins(u, j) ==
    {i \in 1..j : /\ accepted[i].outcome = "success"
                  /\ accepted[i].user = u
                  /\ accepted[i].geo # "None"}

\* the login remembered for the user of the j-th event when that event arrives
PrevGeo(j) == Newest(GeoLogins(accepted[j].user, j - 1), 1)[1]

\* distance / max(elapsed hours, 1e-6) > 900, for whole km and whole seconds
Exceeds900(dist, delta_s) ==
    IF delta_s >= 1 THEN dist * 3600 > 900 * delta_s ELSE dist > 0

\* C15: an event yields an AUTH005 detection exactly when it is a successful
\* login with user and geo, an earlier such login of the user exists, and the
\* speed from the latest of them exceeds 900 km/h (elapsed time below 1e-6 h,
\* negative included, counts as 1e-6 h); the detection carries the previous
\* and the current event_id; the login remembered for a user is always the
\* user's last successful login with geo, whatever fired and whatever other
\* events came after it.
C15_ImpossibleTravel ==
    /\ \A j \in 1..Len(accepted) :
          /\ Cardinality(DetsOf(j, "AUTH005")) <= 1
          /\ DetsOf(j, "AUTH005") # {} <=>
                /\ accepted[j].outcome = "success"
                /\ accepted[j].user # "None"
                /\ accepted[j].geo # "None"
                /\ GeoLogins(accepted[j].user, j - 1) # {}
                /\ Exceeds900(haversine_km(accepted[PrevGeo(j)].geo, accepted[j].geo),
                              accepted[j].ts - accepted[PrevGeo(j)].ts)
          /\ \A k \in DetsOf(j, "AUTH005") :
                /\ yielded[k].det.entity = "user:" \o accepted[j].user
                /\ yielded[k].det.event_ids =
                      <<accepted[PrevGeo(j)].event_id, accepted[j].event_id>>
    /\ \A u \in UserNames :
          LET S == GeoLogins(u, Len(accepted))
          IN rules.last[u] =
                IF S = {} THEN <<>>
                ELSE LET e == accepted[Newest(S, 1)[1]]
                     IN <<[ts |-> e.ts, geo |-> e.geo, event_id |-> e.event_id]>>

\* a login that fires against a remembered login which itself did not fire
\* (exactly 900 km/h), with a login without geo of the same user in between
C15_Witness ==
    \E j \in 1..Len(accepted) :
       /\ DetsOf(j, "AUTH005") # {}
       /\ GeoLogins(accepted[j].user, PrevGeo(j) - 1) # {}
       /\ DetsOf(PrevGeo(j), "AUTH005") = {}
       /\ \E i \in (PrevGeo(j) + 1)..(j - 1) :
             /\ accepted[i].user = accepted[j].user
             /\ accepted[i].outcome = "success"
             /\ accepted[i].geo = "None"
       /\ rules.last[accepted[j].user][1].event_id = accepted[j].event_id

\* place of a rule in the engine's rule list
RuleNo(rule_id) ==
    CASE rule_id = "AUTH001" -> 1
      [] rule_id = "AUTH002" -> 2
      [] rule_id = "AUTH003" -> 3
      [] rule_id = "AUTH004" -> 4
      [] rule_id = "AUTH005" -> 5

C16_WitnessFailures ==
    \E j \in 1..Len(accepted) :
       DetsOf(j, "AUTH001") # {} /\ DetsOf(j, "AUTH002") # {}

\* the minute bucket of a to_alert call: details.bucket, else ts[:16]
BucketOf(c) ==
    IF "bucket" \in DOMAIN c.det.details THEN c.det.details.bucket
    ELSE ToString(c.ts \div 60)

SameTriple(c, e) ==
    /\ c.det.rule_id = e.det.rule_id
    /\ c.det.entity = e.det.entity
    /\ BucketOf(c) = BucketOf(e)

\* C17 (as claimed): two to_alert calls return the same alert_id if their detections agree
\* on rule_id, entity and minute bucket, whatever the event_ids, the other
\* details and the ts, and different alert_ids if they differ in one of the
\* three.
C17_AlertIdOfTriple ==
    \A i, j \in 1..Len(derived) :
       SameTriple(derived[i], derived[j])
          <=> derived[i].alert.alert_id = derived[j].alert.alert_id

\* C17 (amended): two to_alert calls whose detections agree on rule_id, entity
\* and minute bucket return the same alert_id, whatever the event_ids, the
\* other details and the ts; nothing is said of detections that differ.
C17_SameTripleSameId ==
    \A i, j \in 1..Len(derived) :
       SameTriple(derived[i], derived[j])
          => derived[i].alert.alert_id = derived[j].alert.alert_id

\* two calls that agree on the triple and differ in event_ids, in ts and in
\* where the bucket comes from
C17_SameIdReached ==
    \E i, j \in 1..Len(derived) :
       /\ SameTriple(derived[i], derived[j])
       /\ derived[i].det.event_ids # derived[j].det.event_ids
       /\ derived[i].ts # derived[j].ts
       /\ "bucket" \in DOMAIN derived[i].det.details
       /\ "bucket" \notin DOMAIN derived[j].det.details

(***************************************************************************)
(* Properties of the agent                                                 *)
(***************************************************************************)
Matching(line) == parse_sshd_line(line) # <<>>

\* the agent is done with every line yielded so far and the follower runs
BetweenLines == apc \in {"readline", "sleep"}

C20_ReplayTerminates == (mode = "replay") => <>(apc = "returned")

\* what does hold of the file follower: the lines yielded are the lines of
\* the file from the start position on, each once and in order
FollowerYieldsInOrder ==
    apc # "start" =>
       \E start \in 0..Len(file) :
          /\ offset = start + Len(yieldedLines)
          /\ \A i \in 1..Len(yieldedLines) : yieldedLines[i] = file[start + i]

\* C21: if the file at the followed path is replaced (the inode of the path
\* is no longer the inode of the open handle) while the follower waits at
\* EOF, the follower eventually reopens the path, which every line written
\* to the new file needs in order to be yielded.
C21_RotationSafe ==
    (apc = "sleep" /\ pathInode # openInode) ~> (openInode = pathInode)

\* what does hold after a rotation: no line of the new file is ever yielded
RotatedLinesUnread ==
    openInode # 0 => /\ openInode = 1
                     /\ \A i \in 1..Len(yieldedLines) :
                           yieldedLines[i] = file[offset - Len(yieldedLines) + i]

(***************************************************************************)
(* Properties of the journal follower                                      *)
(***************************************************************************)
YieldedSeqs == {yieldedLines[i].seq : i \in 1..Len(yieldedLines)}

\* what does hold in replay mode: the first poll returns the whole journal,
\* and every entry that was there at the start is yielded, awaits its turn
\* or has the text of a line yielded before
ReplayReadsHistory ==
    mode = "replay" /\ apc = "lines" /\ since = 0 =>
       \A i \in 1..offset :
          \/ i \in YieldedSeqs
          \/ \E k \in 1..Len(stdout) : stdout[k].seq = i
          \/ ShortLine(journal[i]) \in recent_set

\* C22: in live mode no entry that was in the journal when the follower
\* started is ever yielded; in replay mode the history is read from the
\* beginning.
C22_LiveSkipsHistory ==
    /\ mode = "live" /\ apc # "start" => \A q \in YieldedSeqs : q > offset
    /\ ReplayReadsHistory

\* C23: no entry is yielded twice, and an entry written after the start that
\* the cursor has passed and that is in no output still to be looked at has
\* been yielded.
C23_ExactlyOnce ==
    /\ \A i, j \in 1..Len(yieldedLines) :
          i # j => yieldedLines[i].seq # yieldedLines[j].seq
    /\ apc # "start" =>
          \A i \in (offset + 1)..Len(journal) :
             (/\ journal[i].ts < since
              /\ \A k \in 1..Len(stdout) : stdout[k].seq # i)
             => i \in YieldedSeqs

\* what does hold of the de-duplication: no entry is yielded twice
NoEntryTwice ==
    \A i, j \in 1..Len(yieldedLines) :
       i # j => ShortLine(yieldedLines[i]) # ShortLine(yieldedLines[j])

(***************************************************************************)
(* Properties of /ingest with validation                                   *)
(***************************************************************************)
SchemaInvariants(ev) ==
    /\ ev.severity \in 1..10
    /\ ev.outcome \in {"success", "failure", "unknown"}

\* C24: every event that /ingest accepts, every row of the events table and
\* every event a rule is given has a severity in 1..10 and an outcome among
\* success, failure, unknown.
C24_AcceptedEventsValid ==
    /\ \A i \in 1..Len(accepted) : SchemaInvariants(accepted[i])
    /\ \A id \in DOMAIN events : SchemaInvariants(events[id])

\* what does hold: the outcome of every accepted event is one of the three
OutcomeValidated ==
    \A i \in 1..Len(accepted) :
       accepted[i].outcome \in {"success", "failure", "unknown"}

\* a response to a body that failed validation (no event was made of it)
Rejection(r) == r.event_id = 0

\* C25: a body that fails validation is answered with HTTP 400.
C25_InvalidBody400 ==
    \A k \in 1..Len(responses) : Rejection(responses[k]) => responses[k].status = 400

\* what does hold: the step that answers a body failing validation changes
\* nothing but the responses
RejectChangesNothing ==
    [][(Len(responses') = Len(responses) + 1 /\ Rejection(responses'[Len(responses')]))
       => UNCHANGED <<storeVars, rules, routerVars, accepted, inserted,
                      alertsIn, yielded, routed, notified>>]_vars

\* detections the engine yielded for the event of a response
DetectionsOf(r) == {i \in 1..Len(yielded) : yielded[i].event_id = r.event_id}

\* C29: within a request the event is in the events table before it is in
\* events.jsonl, it is in both before a rule sees it, an alert is inserted
\* into the alerts table before it is routed, and the alerts field of the
\* response is the number of detections the event produced.
C29_FixedOrder ==
    /\ Len(jsonl) <= Len(inserted)
    /\ \A k \in 1..Len(jsonl) :
          jsonl[k] = inserted[k] /\ jsonl[k].event_id \in DOMAIN events
    /\ (pc[1] = "ruleB" \/ fed[1] # {}) =>
          /\ cur[1].event_id \in DOMAIN events
          /\ jsonl # <<>> /\ jsonl[Len(jsonl)] = cur[1]
    /\ \A i \in 1..Len(yielded) :
          \E k \in 1..Len(jsonl) : jsonl[k].event_id = yielded[i].event_id
    /\ Len(routed) <= Len(alertsIn)
    /\ \A k \in 1..Len(routed) :
          routed[k].alert_id = alertsIn[k].alert_id /\ routed[k].alert_id \in DOMAIN alerts
    /\ \A k \in 1..Len(responses) :
          responses[k].status = 200 =>
             responses[k].alerts = Cardinality(DetectionsOf(responses[k]))

\* a request was answered whose detection was already in the alerts table
\* and was suppressed by the router
C29_Witness ==
    \E k \in 1..Len(responses) :
       /\ responses[k].status = 200
       /\ responses[k].alerts >= 1
       /\ \E j \in DetectionsOf(responses[k]) :
             /\ j <= Len(routed) /\ routed[j].result = "suppressed"
             /\ \E i \in 1..(j - 1) : alertsIn[i].alert_id = alertsIn[j].alert_id

\* C30: every answered request has run the five rules, the rules are run in
\* list order, and between requests the state of the rules and the detections
\* emitted are those of giving every rule every accepted event, in order.
C30_EveryRuleCalled ==
    /\ \A k \in 1..Len(responses) :
          responses[k].status = 200 => responses[k].fed = 1..5
    /\ fed[1] = 1..Cardinality(fed[1])
    /\ pc[1] = "idle" =>
          LET run == RunSequential(InitRules, accepted)
          IN rules = run.rs /\ yielded = run.dets

\* a request was answered in which an earlier rule made a detection and a
\* later rule made one as well
C30_Witness ==
    \E k \in 1..Len(responses) :
       /\ responses[k].status = 200
       /\ \E i, j \in DetectionsOf(responses[k]) :
             RuleNo(yielded[i].det.rule_id) < RuleNo(yielded[j].det.rule_id)

(***************************************************************************)
(* Properties of the parser                                                *)
(***************************************************************************)
\* the messages `Failed password for U from I port P` of a line, I any token
FailedPhrases(line) ==
    SelectSeq(line.phrases, LAMBDA ph : ph.verb = "Failed password" /\ int(ph.port) # <<>>)

\* C26: a line that contains `Failed password for U from I port P` gives an
\* event with outcome failure, severity 4 and the user, address and port of
\* such a message, also when a success message stands in the same line; a
\* line that matches neither pattern gives no event.
C26_ParserRoundTrip ==
    \A k \in 1..Len(derived) :
       LET line == derived[k].line
           ev == derived[k].ev
       IN /\ FailedPhrases(line) # <<>> =>
                /\ ev # <<>>
                /\ ev[1].outcome = "failure" /\ ev[1].severity = 4
                /\ \E i \in 1..Len(FailedPhrases(line)) :
                      /\ ev[1].user = FailedPhrases(line)[i].user
                      /\ ev[1].ip = FailedPhrases(line)[i].addr
                      /\ ev[1].port = int(FailedPhrases(line)[i].port)[1]
          /\ (SSH_FAIL(line) = <<>> /\ SSH_OK(line) = <<>>) => ev = <<>>

\* what does hold: the round trip for lines whose address is a dotted quad
ParserRoundTripIPv4 ==
    \A k \in 1..Len(derived) :
       LET line == derived[k].line
           ev == derived[k].ev
           F == SelectSeq(FailedPhrases(line), LAMBDA ph : IsDottedQuad(ph.addr))
       IN F # <<>> =>
             /\ ev # <<>>
             /\ ev[1].outcome = "failure" /\ ev[1].severity = 4
             /\ ev[1].user = F[1].user /\ ev[1].ip = F[1].addr
             /\ ev[1].port = int(F[1].port)[1]

(***************************************************************************)
(* Properties of the storage queries                                       *)
(***************************************************************************)
\* the rows are JSON forms of distinct events of the table, newest first, and
\* no event left out is newer than one returned
RowsOfStore(rows, tbl) ==
    /\ \A i \in 1..Len(rows) :
          \E id \in DOMAIN tbl : rows[i] = by_alias_json(tbl[id])
    /\ \A i, j \in 1..Len(rows) :
          i < j => rows[i].event_id # rows[j].event_id /\ rows[i].ts >= rows[j].ts
    /\ \A id \in DOMAIN tbl :
          (\A i \in 1..Len(rows) : rows[i].event_id # ToString(id)) =>
             \A i \in 1..Len(rows) : rows[i].ts >= tbl[id].ts

\* an event inserted into an empty store comes back with its fields unchanged
SingleEventBack(q) ==
    (Cardinality(DOMAIN q.tbl) = 1 /\ q.limit >= 1) =>
       \E id \in DOMAIN q.tbl : q.rows = <<by_alias_json(q.tbl[id])>>

\* C27: recent_events(limit) returns at most limit events (none for a limit
\* below 1), each the by-alias JSON form of a stored event as inserted,
\* ordered by ts descending; with one event in the store and a limit of at
\* least 1 it returns that event.
C27_RecentEvents ==
    \A k \in 1..Len(derived) :
       /\ Len(derived[k].rows) <= IF derived[k].limit < 0 THEN 0 ELSE derived[k].limit
       /\ RowsOfStore(derived[k].rows, derived[k].tbl)
       /\ SingleEventBack(derived[k])

\* what does hold: the same for limits that are not negative
RecentEventsFromZero ==
    \A k \in 1..Len(derived) :
       /\ derived[k].limit >= 0 => Len(derived[k].rows) <= derived[k].limit
       /\ RowsOfStore(derived[k].rows, derived[k].tbl)
       /\ SingleEventBack(derived[k])

(***************************************************************************)
(* Properties of the source selection                                      *)
(***************************************************************************)
\* the requested path or a candidate is a readable regular file
SomeFileReadable(c) ==
    \/ c.requested_path # "None" /\ c.requested_path \in c.readable
    \/ \E i \in 1..Len(DEFAULT_AUTH_PATH_CANDIDATES) :
          DEFAULT_AUTH_PATH_CANDIDATES[i] \in c.readable

\* C28: with prefer=auto the kind is file whenever the requested path or a
\* candidate is readable, else journal if the probe succeeds, else file; with
\* prefer=file it is file and with prefer=journal it is journal.
C28_SourceSelection ==
    \A k \in 1..Len(derived) :
       LET c == derived[k]
       IN /\ c.prefer = "file" => c.decision.kind = "file"
          /\ c.prefer = "journal" => c.decision.kind = "journal"
          /\ c.prefer = "auto" =>
                c.decision.kind = IF SomeFileReadable(c) THEN "file"
                                  ELSE IF c.journalctl_available THEN "journal"
                                  ELSE "file"

\* what does hold: the claim for callers that request no path
SourceSelectionNoRequest ==
    \A k \in 1..Len(derived) :
       LET c == derived[k]
       IN /\ c.prefer = "file" => c.decision.kind = "file"
          /\ c.prefer = "journal" => c.decision.kind = "journal"
          /\ (c.prefer = "auto" /\ c.requested_path = "None") =>
                c.decision.kind = IF SomeFileReadable(c) THEN "file"
                                  ELSE IF c.journalctl_available THEN "journal"
                                  ELSE "file"

\* the failures of source `ip` among the events fed, in arrival order
FailuresOfSource(ip) ==
    LET from_ip(e) == e.outcome = "failure" /\ e.src_ip = ip
    IN SelectSeq(accepted, from_ip)

\* C31: AUTH001 never decays.  The history of a source never holds more than
\* 200 entries and holds the newest failures of the source in arrival order;
\* every failure of a source that has failed at least 5 times, whatever its
\* time and whatever came in between, yields one detection whose event_ids
\* are the last 5 failures of the source, ending with the event itself.
C31_NeverDecays ==
    /\ \A ip \in IPs :
          LET fs == FailuresOfSource(ip)
              cut == IF Len(fs) > 200 THEN Len(fs) - 200 ELSE 0
          IN /\ Len(rules.fails[ip]) <= 200
             /\ Len(rules.fails[ip]) = Len(fs) - cut
             /\ \A i \in 1..Len(rules.fails[ip]) :
                   rules.fails[ip][i] = <<fs[cut + i].ts, fs[cut + i].event_id>>
    /\ \A j \in 1..Len(accepted) :
          LET n == Cardinality(FailuresFrom(j))
          IN (/\ accepted[j].outcome = "failure"
              /\ accepted[j].src_ip # "None"
              /\ n >= 5)
             => /\ Cardinality(DetsOf(j, "AUTH001")) = 1
                /\ \A k \in DetsOf(j, "AUTH001") :
                      /\ yielded[k].det.event_ids =
                            [i \in 1..5 |->
                                FailuresOfSource(accepted[j].src_ip)[n - 5 + i].event_id]
                      /\ yielded[k].det.event_ids[5] = accepted[j].event_id

\* more than 200 failures of ip1 were fed, so the history was cut; the last
\* one came hours after the others and after a success of ip1, and fired
C31_Witness ==
    /\ Len(FailuresOfSource("ip1")) > 200
    /\ Len(rules.fails["ip1"]) = 200
    /\ LET j == Len(accepted)
       IN /\ j > Backlog + 2
          /\ accepted[j].outcome = "failure"
          /\ accepted[j].src_ip = "ip1"
          /\ accepted[j].ts = Times[4]
          /\ accepted[j - 1].outcome = "success"
          /\ DetsOf(j, "AUTH001") # {}
\* the calls up to the k-th that observed the source of the k-th call
SameSource(k) ==
    {j \in 1..k : observed[j].ip = observed[k].ip /\ observed[j].ip # "None"}

\* the call that started the window the k-th call falls in (0: none)
WindowStart(k) ==
    LET S == {j \in SameSource(k) : observed[j].reset}
    IN IF S = {} THEN 0 ELSE CHOOSE j \in S : \A i \in S : i <= j

\* the calls of the window of the k-th call, up to the k-th
InWindow(k) ==
    {j \in SameSource(k) : WindowStart(k) # 0 /\ j >= WindowStart(k)}

\* the time of the last record written for the source before the k-th call
LastEmit(k) ==
    LET S == {j \in SameSource(k) : j < k /\ observed[j].wrote}
    IN IF S = {} THEN 0 ELSE observed[CHOOSE j \in S : \A i \in S : i <= j].at

\* C32: a call of observe_failure appends a record exactly when, the event
\* counted, the window of its source holds at least 5 failures and the last
\* record of the source is at least 60 s old; so two records of one source are
\* at least 60 s apart and no record tells of fewer than 5 failures.
C32_ThresholdAndCooldown ==
    /\ \A k \in 1..Len(observed) :
          observed[k].wrote <=>
             /\ Cardinality(InWindow(k)) >= 5
             /\ observed[k].at - LastEmit(k) >= 60
    /\ Len(suspicious) = Cardinality({k \in 1..Len(observed) : observed[k].wrote})
    /\ \A a, b \in 1..Len(suspicious) :
          (a < b /\ suspicious[a].ip = suspicious[b].ip)
          => suspicious[b].ts - suspicious[a].ts >= 60
    /\ \A a \in 1..Len(suspicious) : suspicious[a].window_failures >= 5

\* a second record of a source, and a call held back only by the cooldown
C32_Witness ==
    /\ \E a, b \in 1..Len(suspicious) : a < b /\ suspicious[a].ip = suspicious[b].ip
    /\ \E k \in 1..Len(observed) :
          /\ ~observed[k].wrote
          /\ Cardinality(InWindow(k)) >= 5

\* the call before the k-th that started the window its source was in
\* when the k-th call began (0: the source was not known)
PrevStart(k) ==
    LET S == {j \in SameSource(k) : j < k /\ observed[j].reset}
    IN IF S = {} THEN 0 ELSE CHOOSE j \in S : \A i \in S : i <= j

\* the last call that observed source `ip`
LastCall(ip) ==
    CHOOSE k \in 1..Len(observed) :
       /\ observed[k].ip = ip
       /\ \A j \in 1..Len(observed) : observed[j].ip = ip => j <= k

\* C33: a call starts a new window of its source exactly when it comes more
\* than 60 s after the start of the window (or is the first of the source),
\* and does so before the event is counted: window_failures is the number of
\* failures of the source observed since the window started, users and ports
\* are those of these failures, total_failures is the number of all failures
\* of the source (so it never decreases) and is not less than window_failures.
C33_WindowCounts ==
    /\ \A k \in 1..Len(observed) :
          observed[k].ip # "None" =>
             (observed[k].reset <=>
                 \/ PrevStart(k) = 0
                 \/ observed[k].at - observed[PrevStart(k)].at > 60)
    /\ DOMAIN tstate = {observed[k].ip : k \in 1..Len(observed)} \ {"None"}
    /\ \A ip \in DOMAIN tstate :
          LET k == LastCall(ip)
              st == tstate[ip]
          IN /\ st.window_reset_at = observed[WindowStart(k)].at
             /\ st.window_failures = Cardinality(InWindow(k))
             /\ st.users = {observed[j].user : j \in InWindow(k)} \ {"None"}
             /\ st.ports = {observed[j].port : j \in InWindow(k)}
             /\ st.total_failures = Cardinality(SameSource(k))
             /\ st.total_failures >= st.window_failures

\* a source whose window was started anew: the counter is behind the total
\* and a user of the old window is gone from the set
C33_Witness ==
    \E ip \in DOMAIN tstate :
       /\ tstate[ip].window_failures >= 2
       /\ tstate[ip].total_failures > tstate[ip].window_failures
       /\ \E j \in 1..Len(observed) :
             /\ observed[j].ip = ip
             /\ observed[j].user \notin tstate[ip].users
\* the failures among the lines yielded, as parse_sshd_line returns them
FailuresYielded ==
    LET M == SelectSeq(yieldedLines, Matching)
        P == [i \in 1..Len(M) |-> parse_sshd_line(M[i])[1]]
        failed(e) == e.outcome = "failure"
    IN SelectSeq(P, failed)

\* C34: outside dry-run, once the agent (run with a suspicious log) is done
\* with the lines yielded so far, the burst tracker has observed the failure
\* of every line that matches the failure pattern, in the order yielded,
\* whether or not the POST went through; and no record of the suspicious log
\* is among the POSTs.
C34_LocalAlarm ==
    (BetweenLines /\ ~dry_run) =>
       /\ Len(observed) = Len(FailuresYielded)
       /\ \A i \in 1..Len(observed) :
             /\ observed[i].ip = FailuresYielded[i].ip
             /\ observed[i].user = FailuresYielded[i].user
       /\ \A i \in 1..Len(posts) : posts[i] \notin Range(suspicious)

\* the line the loop body is run for
CurrentLine == yieldedLines[Len(yieldedLines)]

\* C35: the loop body run for a line that matches neither pattern adds one to
\* read and changes nothing else: no event, no POST, parsed, sent and failed as
\* before, the tracker as before; and the agent asks for the next line.
C35_NonMatchingIgnored ==
    [][(apc = "body" /\ ~Matching(CurrentLine) /\ apc' # "body")
       => /\ stats' = [stats EXCEPT !.read = @ + 1]
          /\ apc' = "readline"
          /\ UNCHANGED <<produced, posts, trackerVars, yieldedLines>>]_vars

\* a line that matches neither pattern was handled, and the next line of the
\* file was yielded after it
C35_Witness ==
    /\ Len(yieldedLines) >= 2
    /\ ~Matching(yieldedLines[1])
    /\ stats.read >= 1
    /\ apc = "body"
\* the lines of the scenario before `n` that are neither blank nor comments
PayloadLines(n) ==
    {i \in 1..Len(scenario) : i < n /\ scenario[i].kind \notin {"blank", "comment"}}

\* the POSTs that were answered with a status below 400
Delivered ==
    {i \in 1..Len(replayed) : /\ replayed[i].posted
                              /\ ~replayed[i].outcome.raised
                              /\ replayed[i].outcome.status < 400}

\* the POSTs that got a status of 400 or more, or no answer
FailedPosts ==
    {i \in 1..Len(replayed) : /\ replayed[i].posted
                              /\ \/ replayed[i].outcome.raised
                                 \/ replayed[i].outcome.status >= 400}

\* C36: the replay driver has POSTed, once each and in file order, the lines
\* it has passed that are neither blank nor comments, whatever the outcome of
\* the earlier POSTs, and when it is done it has passed all lines; sent is the
\* number of POSTs delivered, failed the number of POSTs that got a status of
\* 400 or more or no answer, and sent + failed is the number of POSTs.
C36_ReplayStats ==
    /\ Len(replayed) = Cardinality(PayloadLines(pos))
    /\ \A i \in 1..Len(replayed) :
          /\ replayed[i].posted
          /\ replayed[i].line \in PayloadLines(pos)
          /\ \A j \in 1..Len(replayed) : i < j => replayed[i].line < replayed[j].line
    /\ pass = 3 => pos > Len(scenario)
    /\ rstats.sent = Cardinality(Delivered)
    /\ rstats.failed = Cardinality(FailedPosts)
    /\ rstats.sent + rstats.failed = Len(replayed)

\* the files whose non-blank, non-comment lines are all JSON: the driver goes
\* on after a POST that failed and POSTs every payload once, in file order
ReplayPostsEveryPayload ==
    (\A i \in 1..Len(scenario) : scenario[i].kind # "invalid") =>
       /\ Len(replayed) = Cardinality(PayloadLines(pos))
       /\ \A i \in 1..Len(replayed) :
             /\ replayed[i].posted
             /\ replayed[i].line \in PayloadLines(pos)
             /\ \A j \in 1..Len(replayed) : i < j => replayed[i].line < replayed[j].line
       /\ pass = 3 => pos > Len(scenario)
       /\ rstats.sent = Len(replayed)
       /\ rstats.failed = Cardinality(FailedPosts)
\* the routes of the alert_id of call j that were suppressed between call i
\* and call j
SuppressedBetween(i, j) ==
    {k \in (i + 1)..(j - 1) : /\ routed[k].alert_id = routed[j].alert_id
                              /\ routed[k].result = "suppressed"}

\* C37: for a route made after a restart whose alert_id was last notified
\* before that restart: it is suppressed when it comes at most TTL after that
\* notification, and when it notifies, it reports the routes of the ID
\* suppressed since that notification, those before the restart included.
C37_DedupeSurvivesRestart ==
    \A b \in 1..Len(boots) :
       \A j \in (boots[b] + 1)..Len(routed) :
          LET i == PrevNotified(j)
          IN (i # 0 /\ i <= boots[b]) =>
                /\ (routed[j].at - routed[i].at <= ttl_minutes)
                      => routed[j].result = "suppressed"
                /\ (routed[j].result = "notified")
                      => routed[j].n = Cardinality(SuppressedBetween(i, j))

\* the first half of C37: the seen entries are read back from the cache file
RestartKeepsSuppression ==
    \A b \in 1..Len(boots) :
       \A j \in (boots[b] + 1)..Len(routed) :
          LET i == PrevNotified(j)
          IN (i # 0 /\ i <= boots[b]) =>
                (routed[j].result = "suppressed"
                    <=> routed[j].at - routed[i].at <= ttl_minutes)

\* the last route that notified alert_id `aid` (0: none)
LastNotified(aid) ==
    LET S == {i \in 1..Len(routed) : /\ routed[i].alert_id = aid
                                     /\ routed[i].result = "notified"}
    IN IF S = {} THEN 0 ELSE CHOOSE i \in S : \A k \in S : k <= i

\* C38: between two calls, the time kept for an alert_id is the wall-clock
\* time of the last route that notified it, whatever the ts of the alert and
\* whatever routes of the ID were suppressed since; so a route of an ID that
\* was notified before is suppressed exactly when it comes at most TTL after
\* that notification, and is notified again when it comes later.
C38_WindowFromLastNotification ==
    /\ pc[1] = "idle" =>
          \A aid \in DOMAIN seen :
             /\ LastNotified(aid) # 0
             /\ seen[aid] = routed[LastNotified(aid)].at
    /\ \A j \in 1..Len(routed) :
          PrevNotified(j) # 0 =>
             /\ (routed[j].at - routed[PrevNotified(j)].at <= ttl_minutes)
                   => routed[j].result = "suppressed"
             /\ (routed[j].at - routed[PrevNotified(j)].at > ttl_minutes)
                   => routed[j].result = "notified"

\* an ID notified, suppressed 30 minutes later and notified again 61 minutes
\* after the first notification, which is 31 minutes after the suppressed route
C38_Witness ==
    \E i, j, k \in 1..Len(routed) :
       /\ i < j /\ j < k
       /\ routed[i].alert_id = routed[j].alert_id
       /\ routed[j].alert_id = routed[k].alert_id
       /\ routed[i].result = "notified"
       /\ routed[j].result = "suppressed"
       /\ routed[k].result = "notified"
       /\ routed[k].at - routed[i].at = ttl_minutes + 1
       /\ routed[k].at - routed[j].at <= ttl_minutes
       /\ PrevNotified(k) = i

\* the next route after call j of the alert_id of call j (0: none)
NextRouteOf(j) ==
    LET S == {k \in (j + 1)..Len(routed) : routed[k].alert_id = routed[j].alert_id}
    IN IF S = {} THEN 0 ELSE CHOOSE k \in S : \A i \in S : k <= i

\* C40: after a route in which the notifier raised, the alert_id is not seen
\* and its suppressed count is what it was before the call, and the next route
\* of the ID calls the notifier again, with that count.
C40_RaiseKeepsCounter ==
    \A j \in 1..Len(routed) :
       routed[j].result = "raised" =>
          /\ (j = Len(routed) /\ pc[1] = "idle") =>
                /\ routed[j].alert_id \notin DOMAIN seen
                /\ Lookup(suppressed, routed[j].alert_id, 0) = routed[j].n
          /\ NextRouteOf(j) # 0 =>
                /\ routed[NextRouteOf(j)].result \in {"notified", "raised"}
                /\ routed[NextRouteOf(j)].n = routed[j].n

\* the first half of C40: the ID is not marked seen and the next route of it
\* calls the notifier again
RaiseLeavesUnseen ==
    \A j \in 1..Len(routed) :
       routed[j].result = "raised" =>
          /\ (j = Len(routed) /\ pc[1] = "idle") => routed[j].alert_id \notin DOMAIN seen
          /\ NextRouteOf(j) # 0 => routed[NextRouteOf(j)].result \in {"notified", "raised"}
\* the rules of the detections the step yields
NewlyFired == {yielded'[k].det.rule_id : k \in (Len(yielded) + 1)..Len(yielded')}

\* C39: a step that feeds an event to the engine leaves the state of AUTH001
\* and AUTH002 as it was when the event is a success, the state of AUTH003 and
\* AUTH005 when it is a failure; an event that is not an SSH login changes no
\* rule's state and yields nothing; an event without src.ip changes nothing for
\* AUTH001, AUTH002 and AUTH003 and yields nothing from them, and an event
\* without user.name nothing for AUTH002, AUTH003, AUTH004 and AUTH005.
C39_RulesScoped ==
    [][Len(accepted') = Len(accepted) + 1 =>
         LET ev == accepted'[Len(accepted')]
         IN /\ ev.outcome = "success" =>
                  rules'.fails = rules.fails /\ rules'.spray = rules.spray
            /\ ev.outcome = "failure" =>
                  rules'.known = rules.known /\ rules'.last = rules.last
            /\ ~(ev.type = "auth" /\ ev.action = "ssh_login") =>
                  rules' = rules /\ NewlyFired = {}
            /\ ev.src_ip = "None" =>
                  /\ rules'.fails = rules.fails /\ rules'.spray = rules.spray
                  /\ rules'.known = rules.known
                  /\ NewlyFired \cap {"AUTH001", "AUTH002", "AUTH003"} = {}
            /\ ev.user = "None" =>
                  /\ rules'.spray = rules.spray /\ rules'.known = rules.known
                  /\ rules'.last = rules.last
                  /\ NewlyFired \cap {"AUTH002", "AUTH003", "AUTH004", "AUTH005"} = {}]_vars

\* after an SSH login of u1 from ip1, a success of u1 from ip2 at 03:15 that
\* is not an SSH login: as a login it would have fired AUTH003 and AUTH004;
\* it yielded nothing and ip2 is not known for u1
C39_Witness ==
    /\ Len(accepted) = 2
    /\ IsSshLogin(accepted[1]) /\ accepted[1].outcome = "success"
    /\ accepted[1].user = "u1" /\ accepted[1].src_ip = "ip1"
    /\ accepted[2].type = "process" /\ accepted[2].outcome = "success"
    /\ accepted[2].user = "u1" /\ accepted[2].src_ip = "ip2"
    /\ rules.known["u1"] = {"ip1"}
    /\ \A k \in 1..Len(yielded) : yielded[k].event_id # accepted[2].event_id
====
